---- MODULE Spec2Model ----
(***************************************************************************)
(* A model of djblets' API-token model (djblets/webapi/models.py):         *)
(* BaseWebAPIToken.validate_policy, _validate_policy_section,              *)
(* _get_valid_policy_ids and save; and of the conditions form classes      *)
(* (djblets/forms/fields.py, djblets/forms/widgets.py):                    *)
(* ConditionsField.prepare_value and to_python, ConditionsWidget           *)
(* .get_context, .value_from_datadict, .choices and .__deepcopy__,         *)
(* AmountSelectorWidget.decompress and .value_from_datadict, and           *)
(* ListEditDictionaryField.to_python.                                      *)
(*                                                                         *)
(* JSON values are records [kind, items].  A dict keeps its entries as a   *)
(* sequence of <<key, value>> pairs in insertion order (the order in which *)
(* dict.items() yields them); every other kind has no items, since the     *)
(* code only ever asks isinstance(..., dict) or isinstance(..., list).     *)
(***************************************************************************)
EXTENDS Integers, Sequences, FiniteSets, TLC

VARIABLES
    policy,      \* the argument of the validate_policy call
    root,        \* the class: what get_root_resource() returns (or raises)
    outcome,     \* how the last validate_policy call ended
    rootCalls,   \* get_root_resource() calls made by the last validate_policy
    validIds,    \* what the last _get_valid_policy_ids(root) call returned
    token,       \* the in-memory token instance: [pk, policy]
    db,          \* the persisted token rows: pk -> policy
    saveTrace,   \* what the last save() call did, in order
    saves,       \* number of save() calls so far
    updates,     \* saves of an instance that had a pk, and that persisted
    signals,     \* webapi_token_updated emissions so far
    value,       \* the value a ConditionsField is first handed
    data,        \* the submitted form data a ConditionsWidget reads
    condition_errors,  \* ConditionsWidget.condition_errors: row index -> message
    calls,       \* the calls made on the field and its widget, in order
    widget_choices,  \* choice_widget.choices and operator_widget.choices
    unit_choices,    \* the unit choices of an AmountSelectorWidget
    widgets,     \* the ConditionsWidget instances: original and deep copies
    heap,        \* the dicts the widgets refer to: reference -> entries
    made         \* registries the choices factory has made so far

vars == <<policy, root, outcome, rootCalls, validIds,
          token, db, saveTrace, saves, updates, signals,
          value, data, condition_errors, calls,
          widget_choices, unit_choices, widgets, heap, made>>

policyVars == <<policy, outcome, rootCalls>>
tokenVars == <<token, db, saveTrace, saves, updates, signals>>
formVars == <<value, data, condition_errors, calls>>
widgetVars == <<widget_choices, unit_choices, widgets, heap, made>>

----------------------------------------------------------------------------
(* Bounds *)

MaxKeys == 2      \* entries of a "resources" mapping
MaxSubs == 1      \* entries of a named resource section
MaxNodes == 3     \* nodes of a resource tree
MaxTokens == 2    \* rows of the token table
MaxSaves == 3     \* save() calls in one behaviour
MaxRows == 2      \* conditions of a document
MaxCalls == 3     \* calls made on one field and its widget

----------------------------------------------------------------------------
(* JSON values *)

Scalar(k) == [kind |-> k, items |-> <<>>]
Dict(items) == [kind |-> "dict", items |-> items]
ListV == Scalar("list")
StrV == Scalar("str")
NullV == Scalar("null")
EmptyDict == Dict(<<>>)

\* isinstance(v, (dict, list)): a check that lets lists through
IsDictOrList(v) == v.kind \in {"dict", "list"}

\* isinstance(v, dict)
IsDict(v) == v.kind = "dict"

\* isinstance(v, list)
IsList(v) == v.kind = "list"

\* key in d
Has(d, k) == \E i \in 1..Len(d.items) : d.items[i][1] = k

\* d[key]
Get(d, k) == d.items[CHOOSE i \in 1..Len(d.items) : d.items[i][1] = k][2]

\* A subsection key that is not a string (possible for a policy built in
\* Python rather than parsed from JSON) is written as this reserved key.
IntKey == "int:7"

\* isinstance(subsection_name, str)
IsStrKey(k) == k # IntKey

----------------------------------------------------------------------------
(* How a call ends *)

NotCalled == [status |-> "none", msg |-> "", at |-> <<>>]
Ok == [status |-> "ok", msg |-> "", at |-> <<>>]

\* raise ValidationError(msg % at)
Fail(msg, at) == [status |-> "ValidationError", msg |-> msg, at |-> at]

\* An exception other than ValidationError escaping the call.
Raise(exc, at) == [status |-> exc, msg |-> "", at |-> at]

----------------------------------------------------------------------------
(* The messages of the ValidationErrors (the %s are filled from "at") *)

MsgNotObject == "The policy must be a JSON object."
MsgNoResources == "The policy is missing a resources section."
MsgResourcesNotObject == "The policy's resources section must be a JSON object."
MsgResourcesEmpty == "The policy's resources section must not be empty."
MsgInvalidId == "%s is not a valid resource policy ID."
MsgKeyNotString == "%s must be a string in resources.%s"
MsgSectionNotObject == "The %s section must be a JSON object."
MsgSectionNoRules == "The %s section must have allow and/or block rules."
MsgAllowNotList == "The %s section's allow rule must be a list."
MsgBlockNotList == "The %s section's block rule must be a list."

----------------------------------------------------------------------------
(* _get_valid_policy_ids: the walk of the resource tree *)

Nodes == 1..MaxNodes
RootNode == 1
NoPolicyId == "<no policy_id>"

\* hasattr(resource, 'policy_id')
HasPolicyId(tree, n) == tree.policy_id[n] # NoPolicyId

RECURSIVE _get_valid_policy_ids(_, _, _)
RECURSIVE WalkChildren(_, _, _, _)

\* for child_resource in children: cls._get_valid_policy_ids(child, result)
WalkChildren(tree, children, i, result) ==
    IF i > Len(children)
    THEN result
    ELSE WalkChildren(tree, children, i + 1,
                      _get_valid_policy_ids(tree, children[i], result))

\* A walk that forgets the item children
GetValidPolicyIdsListOnly(tree, resource, result) ==
    LET own == IF HasPolicyId(tree, resource)
               THEN result \cup {tree.policy_id[resource]}
               ELSE result
    IN  WalkChildren(tree, tree.list_child_resources[resource], 1, own)

\* result is the one set every recursive call adds to.
_get_valid_policy_ids(tree, resource, result) ==
    LET own == IF HasPolicyId(tree, resource)
               THEN result \cup {tree.policy_id[resource]}
               ELSE result
        afterList == WalkChildren(tree, tree.list_child_resources[resource],
                                  1, own)
    IN  WalkChildren(tree, tree.item_child_resources[resource], 1, afterList)

\* cls._get_valid_policy_ids(cls.get_root_resource()), result=None
GetValidPolicyIds(tree) == _get_valid_policy_ids(tree, RootNode, {})

----------------------------------------------------------------------------
(* _validate_policy_section *)

\* The check for a section without rules, left out
HasNoRulesNever(section) == FALSE

\* 'allow' not in section and 'block' not in section
HasNoRules(section) == ~Has(section, "allow") /\ ~Has(section, "block")

\* The list check made for the allow rule only
BadRuleAllowOnly(section, rule) ==
    rule = "allow" /\ Has(section, rule) /\ ~IsList(Get(section, rule))

\* 'allow' in section and not isinstance(section['allow'], list)
BadRule(section, rule) == Has(section, rule) /\ ~IsList(Get(section, rule))

_validate_policy_section(parent_section, section_name, full_section_name) ==
    LET section == Get(parent_section, section_name)
    IN  IF ~IsDict(section)
        THEN Fail(MsgSectionNotObject, full_section_name)
        ELSE IF HasNoRules(section)
        THEN Fail(MsgSectionNoRules,
                  full_section_name)
        ELSE IF BadRule(section, "allow")
        THEN Fail(MsgAllowNotList,
                  full_section_name)
        ELSE IF BadRule(section, "block")
        THEN Fail(MsgBlockNotList,
                  full_section_name)
        ELSE Ok

----------------------------------------------------------------------------
(* validate_policy *)

\* An emptiness check that never holds
IsEmptyNever(d) == FALSE

\* not policy / not resources_section, for a dict
IsEmpty(d) == Len(d.items) = 0

\* A membership check that lets every id through
IsInvalidPolicyIdNever(policy_id, valid_policy_ids) == FALSE

\* policy_id not in valid_policy_ids
IsInvalidPolicyId(policy_id, valid_policy_ids) ==
    policy_id \notin valid_policy_ids

\* [(name, section) for name, section in resources_section.items()
\*  if name != '*']
ResourcePolicies(resources_section) ==
    SelectSeq(resources_section.items, LAMBDA e : e[1] # "*")

RECURSIVE ValidateSubsections(_, _, _)
\* for subsection_name, subsection in section.items(): ...
ValidateSubsections(section, policy_id, i) ==
    IF i > Len(section.items)
    THEN Ok
    ELSE LET subsection_name == section.items[i][1]
         IN  IF ~IsStrKey(subsection_name)
             THEN Fail(MsgKeyNotString,
                       <<subsection_name, policy_id>>)
             ELSE LET r == _validate_policy_section(
                               section, subsection_name,
                               <<"resources", policy_id, subsection_name>>)
                  IN  IF r # Ok
                      THEN r
                      ELSE ValidateSubsections(section, policy_id, i + 1)

\* A named section checked as the wildcard section is: as a mapping that
\* holds the allow and block rules itself
ValidateResourcePolicyFlat(policy_id, section, valid_policy_ids) ==
    IF IsInvalidPolicyId(policy_id, valid_policy_ids)
    THEN Fail(MsgInvalidId, <<policy_id>>)
    ELSE IF ~IsDict(section)
    THEN Fail(MsgSectionNotObject, <<"resources", policy_id>>)
    ELSE IF HasNoRules(section)
    THEN Fail(MsgSectionNoRules, <<"resources", policy_id>>)
    ELSE IF BadRule(section, "allow")
    THEN Fail(MsgAllowNotList, <<"resources", policy_id>>)
    ELSE IF BadRule(section, "block")
    THEN Fail(MsgBlockNotList, <<"resources", policy_id>>)
    ELSE Ok

\* The body of "for policy_id, section in resource_policies" for one entry.
ValidateResourcePolicy(policy_id, section, valid_policy_ids) ==
    IF IsInvalidPolicyId(policy_id, valid_policy_ids)
    THEN Fail(MsgInvalidId, <<policy_id>>)
    ELSE IF ~IsDict(section)
    THEN \* section.items() on a value that is no dict
         Raise("AttributeError", <<"resources", policy_id>>)
    ELSE ValidateSubsections(section, policy_id, 1)

RECURSIVE ValidateShapes(_, _, _)
\* The loop over the named sections, all of whose ids are known
ValidateShapes(resource_policies, valid_policy_ids, i) ==
    IF i > Len(resource_policies)
    THEN Ok
    ELSE LET r == ValidateResourcePolicy(resource_policies[i][1],
                                         resource_policies[i][2],
                                         valid_policy_ids)
         IN  IF r # Ok
             THEN r
             ELSE ValidateShapes(resource_policies, valid_policy_ids, i + 1)

\* Two passes: the membership of every key first, the sections after
ValidateResourcePoliciesTwoPass(resource_policies, valid_policy_ids, i) ==
    LET unknown == {k \in i..Len(resource_policies) :
                       IsInvalidPolicyId(resource_policies[k][1],
                                         valid_policy_ids)}
    IN  IF unknown # {}
        THEN Fail(MsgInvalidId,
                  <<resource_policies[CHOOSE k \in unknown :
                                          \A m \in unknown : k <= m][1]>>)
        ELSE ValidateShapes(resource_policies, valid_policy_ids, i)

RECURSIVE ValidateResourcePolicies(_, _, _)
\* for policy_id, section in resource_policies: ...
ValidateResourcePolicies(resource_policies, valid_policy_ids, i) ==
    IF i > Len(resource_policies)
    THEN Ok
    ELSE LET r == ValidateResourcePolicy(resource_policies[i][1],
                                         resource_policies[i][2],
                                         valid_policy_ids)
         IN  IF r # Ok
             THEN r
             ELSE ValidateResourcePolicies(resource_policies,
                                           valid_policy_ids, i + 1)

\* if '*' in resources_section: cls._validate_policy_section(..., '*', ...)
ValidateWildcard(resources_section) ==
    IF Has(resources_section, "*")
    THEN _validate_policy_section(resources_section, "*",
                                  <<"resources", "*">>)
    ELSE Ok

\* The valid ids fetched before looking whether a named section is there
ValidateNamedEager(resources_section, cls) ==
    LET resource_policies == ResourcePolicies(resources_section)
    IN  IF ~cls.implemented
        THEN [result |-> Raise("NotImplementedError", <<>>), root_calls |-> 1]
        ELSE [result |-> ValidateResourcePolicies(
                             resource_policies, GetValidPolicyIds(cls), 1),
              root_calls |-> 1]

\* if resource_policies: valid_policy_ids = ...; for ...
\* Yields the call's end and the number of get_root_resource() calls.
ValidateNamed(resources_section, cls) ==
    LET resource_policies == ResourcePolicies(resources_section)
    IN  IF Len(resource_policies) = 0
        THEN [result |-> Ok, root_calls |-> 0]
        ELSE IF ~cls.implemented
        THEN \* BaseWebAPIToken.get_root_resource
             [result |-> Raise("NotImplementedError", <<>>), root_calls |-> 1]
        ELSE [result |-> ValidateResourcePolicies(
                             resource_policies, GetValidPolicyIds(cls), 1),
              root_calls |-> 1]

\* The named sections first, then the wildcard section
ValidateResourcesNamedFirst(resources_section, cls) ==
    LET n == ValidateNamed(resources_section, cls)
    IN  IF n.result # Ok
        THEN n
        ELSE [result |-> ValidateWildcard(resources_section),
              root_calls |-> n.root_calls]

\* The wildcard section first, then the named sections.
ValidateResources(resources_section, cls) ==
    LET w == ValidateWildcard(resources_section)
    IN  IF w # Ok
        THEN [result |-> w, root_calls |-> 0]
        ELSE ValidateNamed(resources_section, cls)

\* Yields [result, root_calls]: how the call ends, and how many times it
\* called get_root_resource().
validate_policy(cls, p) ==
    LET Done(r) == [result |-> r, root_calls |-> 0]
    IN  IF ~IsDict(p)
        THEN Done(Fail(MsgNotObject, <<>>))
        ELSE IF IsEmpty(p)
        THEN Done(Ok)
        ELSE IF ~Has(p, "resources")
        THEN Done(Fail(MsgNoResources, <<>>))
        ELSE LET resources_section == Get(p, "resources")
             IN  IF ~IsDict(resources_section)
                 THEN Done(Fail(MsgResourcesNotObject, <<>>))
                 ELSE IF IsEmpty(resources_section)
                 THEN Done(Fail(MsgResourcesEmpty, <<>>))
                 ELSE ValidateResources(resources_section, cls)

----------------------------------------------------------------------------
(* The inputs: policy documents *)

RECURSIVE DictItems(_, _, _)
\* The entry lists of at most n entries with pairwise distinct keys among
\* keys, the value of key k drawn from vals[k].
DictItems(keys, vals, n) ==
    IF n = 0
    THEN {<<>>}
    ELSE {<<>>} \cup
         UNION {{<<<<k, v>>>> \o rest :
                     v \in vals[k],
                     rest \in DictItems(keys \ {k}, vals, n - 1)} :
                k \in keys}

RuleKinds == {"absent", "list", "str"}

\* {"allow": <a>, "block": <b>}, a key of kind "absent" left out
RulesDict(a, b) ==
    Dict((IF a = "absent" THEN <<>> ELSE <<<<"allow", Scalar(a)>>>>) \o
         (IF b = "absent" THEN <<>> ELSE <<<<"block", Scalar(b)>>>>))

\* What may stand under "*" in the resources mapping
Sections == {ListV} \cup {RulesDict(a, b) : a, b \in RuleKinds}

\* What may stand under a string key of a named section
SubSections ==
    {ListV, EmptyDict, RulesDict("list", "absent"), RulesDict("absent", "str")}

SubNames == {"*", "allow", IntKey}

\* What may stand under a resource policy id in the resources mapping
NamedSections ==
    {ListV} \cup
    {Dict(items) :
        items \in DictItems(SubNames,
                            [k \in SubNames |->
                                IF k = IntKey THEN {ListV} ELSE SubSections],
                            MaxSubs)}

SectionNames == {"*", "a", "b"}

\* Stands for "this key is not in the mapping".
Absent == Scalar("absent")

\* The orders in which a mapping can hold the section names
Orders ==
    {o \in [1..Cardinality(SectionNames) -> SectionNames] :
        \A i, j \in DOMAIN o : i # j => o[i] # o[j]}

\* The resources mapping that holds, in the order ord, the keys k whose
\* val[k] is not Absent
ResourcesOf(ord, val) ==
    Dict(SelectSeq([i \in DOMAIN ord |-> <<ord[i], val[ord[i]]>>],
                   LAMBDA e : e[2] # Absent))

\* {"resources": r}
PolicyOf(r) == Dict(<<<<"resources", r>>>>)

\* The policies that are no mapping, that are empty, that have no resources
\* key, or whose resources value is no mapping
FlatPolicies ==
    {ListV, StrV, NullV, EmptyDict, Dict(<<<<"other", StrV>>>>),
     PolicyOf(ListV)}

----------------------------------------------------------------------------
(* The inputs: resource trees *)

TreeIds == {"root", "a", "b"}

RECURSIVE SortedSeq(_)
\* The members of a set of nodes, in ascending order
SortedSeq(S) ==
    IF S = {}
    THEN <<>>
    ELSE LET m == CHOOSE x \in S : \A y \in S : x <= y
         IN  <<m>> \o SortedSeq(S \ {m})

\* The tree in which node n > 1 is a child of parent[n] (0: of no node), of
\* the kind kind[n], and node n has the policy id ids[n].
MkTree(parent, kind, ids) ==
    [implemented |-> TRUE,
     policy_id |-> ids,
     list_child_resources |->
        [n \in Nodes |-> SortedSeq({c \in Nodes \ {RootNode} :
                                        parent[c] = n /\ kind[c] = "list"})],
     item_child_resources |->
        [n \in Nodes |-> SortedSeq({c \in Nodes \ {RootNode} :
                                        parent[c] = n /\ kind[c] = "item"})]]

Trees ==
    {MkTree(parent, kind, ids) :
        parent \in {f \in [Nodes \ {RootNode} -> 0..MaxNodes] :
                        \A n \in Nodes \ {RootNode} : f[n] < n},
        kind \in [Nodes \ {RootNode} -> {"list", "item"}],
        ids \in [Nodes -> TreeIds \cup {NoPolicyId}]}

\* A -> [B, C], B and C list children: A is 'root', B is 'b', C has no id;
\* further nodes, if any, are in no tree.
ExampleTree ==
    MkTree([n \in Nodes \ {RootNode} |-> IF n <= 3 THEN 1 ELSE 0],
           [n \in Nodes \ {RootNode} |-> "list"],
           [n \in Nodes |-> IF n = 1 THEN "root"
                            ELSE IF n = 2 THEN "b" ELSE NoPolicyId])

\* root -> item child 'a' -> list child 'b'
DeepTree ==
    MkTree([n \in Nodes \ {RootNode} |-> IF n <= 3 THEN n - 1 ELSE 0],
           [n \in Nodes \ {RootNode} |-> IF n = 2 THEN "item" ELSE "list"],
           [n \in Nodes |-> IF n = 1 THEN "root"
                            ELSE IF n = 2 THEN "a"
                            ELSE IF n = 3 THEN "b" ELSE NoPolicyId])

\* BaseWebAPIToken itself: get_root_resource raises NotImplementedError.
BaseClass ==
    [implemented |-> FALSE,
     policy_id |-> [n \in Nodes |-> NoPolicyId],
     list_child_resources |-> [n \in Nodes |-> <<>>],
     item_child_resources |-> [n \in Nodes |-> <<>>]]

Classes == {BaseClass, ExampleTree, DeepTree}

NotWalked == [called |-> FALSE, ids |-> {}]

----------------------------------------------------------------------------
(* The state of the parts a behaviour does not exercise *)

\* Python's None, as a value handed to or returned by the form classes
NoneV == [kind |-> "None", mode |-> "", conditions |-> <<>>]

\* Form data without any of the widget's fields
NoData ==
    [last_id |-> [kind |-> "missing", n |-> 0], mode |-> "None",
     rows |-> <<>>]

\* ConditionsWidget.__init__: self.condition_errors = {}
NoErrors == <<>>

\* No amount selector, no widget instance, no registry made
InitWidgets ==
    /\ widget_choices = [choice |-> <<>>, operator |-> <<>>]
    /\ unit_choices = <<>>
    /\ widgets = <<>>
    /\ heap = <<>>
    /\ made = 0

\* A field and widget as constructed, nothing submitted, nothing called
InitForms ==
    /\ value = NoneV
    /\ data = NoData
    /\ condition_errors = NoErrors
    /\ calls = <<>>
    /\ InitWidgets

----------------------------------------------------------------------------
(* Calls of validate_policy on the bounded policy documents *)

InitToken ==
    /\ token = [pk |-> 0, policy |-> EmptyDict]
    /\ db = <<>>
    /\ saveTrace = <<>>
    /\ saves = 0
    /\ updates = 0
    /\ signals = 0

InitPolicy ==
    /\ \/ policy \in FlatPolicies
       \/ \E ord \in Orders :
          \E w \in Sections \cup {Absent} :
          \E sa, sb \in NamedSections \cup {Absent} :
             LET val == [k \in SectionNames |->
                            IF k = "*" THEN w ELSE IF k = "a" THEN sa ELSE sb]
                 r == ResourcesOf(ord, val)
             IN  /\ Len(r.items) <= MaxKeys
                 /\ policy = PolicyOf(r)
    /\ root \in Classes
    /\ outcome = NotCalled
    /\ rootCalls = 0
    /\ validIds = NotWalked
    /\ InitToken
    /\ InitForms

\* cls.validate_policy(policy)
ValidatePolicy ==
    /\ outcome = NotCalled
    /\ LET r == validate_policy(root, policy)
       IN  /\ outcome' = r.result
           /\ rootCalls' = r.root_calls
    /\ UNCHANGED <<policy, root, validIds, tokenVars, formVars, widgetVars>>

NextPolicy == ValidatePolicy

SpecPolicy == InitPolicy /\ [][NextPolicy]_vars

----------------------------------------------------------------------------
(* Calls of _get_valid_policy_ids on the bounded resource trees *)

InitTree ==
    /\ policy = EmptyDict
    /\ root \in Trees
    /\ outcome = NotCalled
    /\ rootCalls = 0
    /\ validIds = NotWalked
    /\ InitToken
    /\ InitForms

\* cls._get_valid_policy_ids(cls.get_root_resource())
WalkTree ==
    /\ ~validIds.called
    /\ validIds' = [called |-> TRUE, ids |-> GetValidPolicyIds(root)]
    /\ UNCHANGED <<policyVars, root, tokenVars, formVars, widgetVars>>

NextTree == WalkTree

SpecTree == InitTree /\ [][NextTree]_vars

----------------------------------------------------------------------------
(* BaseWebAPIToken.save *)

\* A well-formed policy, and one validate_policy rejects
WildcardPolicy == PolicyOf(Dict(<<<<"*", RulesDict("list", "absent")>>>>))
EmptyResourcesPolicy == PolicyOf(EmptyDict)

TokenPolicies == {EmptyDict, WildcardPolicy, EmptyResourcesPolicy}

\* self.pk is None
NoPk == 0

\* A save that validates the policy first and persists nothing when
\* validate_policy rejects it
save_validating(t, rows, super_ok) ==
    LET is_new == t.pk = NoPk
        pk == IF is_new THEN Len(rows) + 1 ELSE t.pk
    IN  IF validate_policy(root, t.policy).result # Ok
        THEN [token |-> t, db |-> rows, trace |-> <<"ValidationError">>]
        ELSE IF ~super_ok
        THEN [token |-> t, db |-> rows, trace |-> <<"super.save raised">>]
        ELSE [token |-> [t EXCEPT !.pk = pk],
              db |-> IF is_new
                     THEN Append(rows, t.policy)
                     ELSE [rows EXCEPT ![pk] = t.policy],
              trace |-> IF ~is_new
                        THEN <<"persisted", "webapi_token_updated">>
                        ELSE <<"persisted">>]

\* A save that sends the signal whenever the row was persisted, for a new
\* record too
save_signalling_always(t, rows, super_ok) ==
    LET is_new == t.pk = NoPk
        pk == IF is_new THEN Len(rows) + 1 ELSE t.pk
    IN  IF ~super_ok
        THEN [token |-> t, db |-> rows, trace |-> <<"super.save raised">>]
        ELSE [token |-> [t EXCEPT !.pk = pk],
              db |-> IF is_new
                     THEN Append(rows, t.policy)
                     ELSE [rows EXCEPT ![pk] = t.policy],
              trace |-> <<"persisted", "webapi_token_updated">>]

\* save(self) on the instance t with the table rows: super().save() either
\* persists the row (super_ok) or raises.  Yields the instance and the table
\* afterwards, and what the call did, in order.
save(t, rows, super_ok) ==
    LET is_new == t.pk = NoPk
        pk == IF is_new THEN Len(rows) + 1 ELSE t.pk
    IN  IF ~super_ok
        THEN [token |-> t, db |-> rows, trace |-> <<"super.save raised">>]
        ELSE [token |-> [t EXCEPT !.pk = pk],
              db |-> IF is_new
                     THEN Append(rows, t.policy)
                     ELSE [rows EXCEPT ![pk] = t.policy],
              trace |-> IF ~is_new
                        THEN <<"persisted", "webapi_token_updated">>
                        ELSE <<"persisted">>]

\* The number of webapi_token_updated emissions in a call's trace
Emissions(trace) ==
    Cardinality({i \in DOMAIN trace : trace[i] = "webapi_token_updated"})

\* token.save()
Save(super_ok) ==
    /\ saves < MaxSaves
    /\ token.pk = NoPk => Len(db) < MaxTokens
    /\ LET r == save(token, db, super_ok)
       IN  /\ token' = r.token
           /\ db' = r.db
           /\ saveTrace' = r.trace
           /\ signals' = signals + Emissions(r.trace)
           /\ updates' = IF super_ok /\ token.pk # NoPk
                         THEN updates + 1
                         ELSE updates
    /\ saves' = saves + 1
    /\ UNCHANGED <<policyVars, root, validIds, formVars, widgetVars>>

\* token = Token(policy=p): an instance that has no row yet
NewToken(p) ==
    /\ token' = [pk |-> NoPk, policy |-> p]
    /\ UNCHANGED <<policyVars, root, validIds, formVars, widgetVars,
                   db, saveTrace, saves, updates, signals>>

\* token = Token.objects.get(pk=k)
LoadToken(k) ==
    /\ token' = [pk |-> k, policy |-> db[k]]
    /\ UNCHANGED <<policyVars, root, validIds, formVars, widgetVars,
                   db, saveTrace, saves, updates, signals>>

\* token.policy = p
SetPolicy(p) ==
    /\ token' = [token EXCEPT !.policy = p]
    /\ UNCHANGED <<policyVars, root, validIds, formVars, widgetVars,
                   db, saveTrace, saves, updates, signals>>

InitSave ==
    /\ policy = EmptyDict
    /\ root = ExampleTree
    /\ outcome = NotCalled
    /\ rootCalls = 0
    /\ validIds = NotWalked
    /\ InitToken
    /\ InitForms

NextSave ==
    \/ \E super_ok \in BOOLEAN : Save(super_ok)
    \/ \E p \in TokenPolicies : NewToken(p)
    \/ \E k \in 1..Len(db) : LoadToken(k)
    \/ \E p \in TokenPolicies : SetPolicy(p)

SpecSave == InitSave /\ [][NextSave]_vars

----------------------------------------------------------------------------
(* djblets.conditions, as the forms code uses it: the registry of choices, *)
(* the value fields, ConditionSet.deserialize and ConditionSet.serialize   *)

\* ConditionSet.MODE_ALWAYS, MODE_ALL, MODE_ANY
MODE_ALWAYS == "always"
MODE_ALL == "all"
MODE_ANY == "any"
Modes == {MODE_ALWAYS, MODE_ALL, MODE_ANY}

\* ConditionSet.DEFAULT_MODE
DEFAULT_MODE == MODE_ALWAYS

\* The registry: one choice, "status", with the operators "is", which takes
\* the choice's default value field (an integer field), and "any", which
\* takes no value.
ChoiceIds == <<"status">>
OperatorIds(choice_id) == <<"is", "any">>
IntegerField == "IntegerField"
NoField == "<no value field>"
ValueFieldOf(choice_id, operator_id) ==
    IF operator_id = "is" THEN IntegerField ELSE NoField

InSeq(x, seq) == \E i \in DOMAIN seq : seq[i] = x

\* choices.get_choice(choice_id) does not raise ConditionChoiceNotFoundError
ChoiceFound(choice_id) == InSeq(choice_id, ChoiceIds)

\* choice.get_operator(operator_id) does not raise
\* ConditionOperatorNotFoundError
OperatorFound(choice_id, operator_id) ==
    InSeq(operator_id, OperatorIds(choice_id))

\* Raw values: nothing, the text "7", the number 7, the text "x"
RawNone == "None"
RawValues == {RawNone, "str:7", "int:7", "str:x"}

\* The value a condition without a value field holds
NoValue == "None"

\* The integer field reads the text "7" and the number 7 as the number 7,
\* requires a value, and refuses any other text.
ParseValue(value_field, raw) ==
    IF raw = RawNone
    THEN [ok |-> FALSE, value |-> NoValue, code |-> "required",
          message |-> "This field is required."]
    ELSE IF raw \in {"str:7", "int:7"}
    THEN [ok |-> TRUE, value |-> "int:7", code |-> "", message |-> ""]
    ELSE [ok |-> FALSE, value |-> NoValue, code |-> "invalid",
          message |-> "Enter a whole number."]

\* The value field's serializer: a number is serialized as itself
SerializeValue(value_field, typed) == typed

\* A serialized condition, and a document of them
Row(choice_id, operator_id, raw) ==
    [choice |-> choice_id, op |-> operator_id, value |-> raw]

Doc(mode, conditions) ==
    [kind |-> "dict", mode |-> mode, conditions |-> conditions]

\* A ConditionSet: the mode, and the conditions with their typed values
ConditionSetOf(mode, conditions) ==
    [kind |-> "ConditionSet", mode |-> mode, conditions |-> conditions]

\* A value that is neither None, nor a dict, nor a ConditionSet
OtherV == [kind |-> "str", mode |-> "", conditions |-> <<>>]

\* How deserializing one row ends: the condition, or the error raised,
\* which carries the index of the row
DeserializeRow(row, condition_index) ==
    LET field == ValueFieldOf(row.choice, row.op)
        parsed == ParseValue(field, row.value)
        NoCondition == Row(row.choice, row.op, NoValue)
    IN  IF ~ChoiceFound(row.choice)
        THEN [exc |-> "ConditionChoiceNotFoundError",
              condition_index |-> condition_index, code |-> "",
              message |-> "No condition choice was found matching the ID.",
              condition |-> NoCondition]
        ELSE IF ~OperatorFound(row.choice, row.op)
        THEN [exc |-> "ConditionOperatorNotFoundError",
              condition_index |-> condition_index, code |-> "",
              message |-> "No operator was found matching the ID.",
              condition |-> NoCondition]
        ELSE IF field = NoField
        THEN [exc |-> "", condition_index |-> condition_index, code |-> "",
              message |-> "", condition |-> NoCondition]
        ELSE IF ~parsed.ok
        THEN [exc |-> "InvalidConditionValueError",
              condition_index |-> condition_index, code |-> parsed.code,
              message |-> parsed.message, condition |-> NoCondition]
        ELSE [exc |-> "", condition_index |-> condition_index, code |-> "",
              message |-> "",
              condition |-> Row(row.choice, row.op, parsed.value)]

\* ConditionSet.deserialize(choices, data): the mode is checked, then the
\* rows are deserialized in ascending order, and the first error ends the
\* call.
Deserialize(doc) ==
    LET rows == [i \in DOMAIN doc.conditions |->
                     DeserializeRow(doc.conditions[i], i - 1)]
        failed == {i \in DOMAIN rows : rows[i].exc # ""}
        first == CHOOSE i \in failed : \A j \in failed : i <= j
        NoSet == ConditionSetOf("", <<>>)
    IN  IF doc.mode \notin Modes
        THEN [exc |-> "InvalidConditionModeError", condition_index |-> -1,
              code |-> "", message |-> "The mode is not a valid mode.",
              condition_set |-> NoSet]
        ELSE IF failed # {}
        THEN [exc |-> rows[first].exc,
              condition_index |-> rows[first].condition_index,
              code |-> rows[first].code, message |-> rows[first].message,
              condition_set |-> NoSet]
        ELSE [exc |-> "", condition_index |-> -1, code |-> "",
              message |-> "",
              condition_set |->
                  ConditionSetOf(doc.mode,
                                 [i \in DOMAIN rows |-> rows[i].condition])]

\* ConditionSet.serialize()
Serialize(condition_set) ==
    Doc(condition_set.mode,
        [i \in DOMAIN condition_set.conditions |->
             LET c == condition_set.conditions[i]
                 field == ValueFieldOf(c.choice, c.op)
             IN  Row(c.choice, c.op,
                     IF field = NoField THEN RawNone
                     ELSE SerializeValue(field, c.value))])

----------------------------------------------------------------------------
(* ConditionsField.prepare_value and ConditionsField.to_python *)

\* The field's default_error_messages
ErrorMessages ==
    [condition_errors |-> "There was an error with one of your conditions.",
     invalid_mode |-> "Must select either \"All\" or \"Any\".",
     value_required |-> "A value is required for this condition."]

NoExc == [type |-> "", code |-> "", message |-> ""]
NoReturn == [kind |-> "<raised>", mode |-> "", conditions |-> <<>>]

\* forms.ValidationError(message, code=code)
ValidationError(message, code) ==
    [type |-> "ValidationError", code |-> code, message |-> message]

ValueError ==
    [type |-> "ValueError", code |-> "",
     message |-> "%r is not a valid value for a %s"]

\* widget.condition_errors[condition_index] = message
SetItem(errors, condition_index, message) ==
    [i \in DOMAIN errors \cup {condition_index} |->
         IF i = condition_index THEN message ELSE errors[i]]

\* The default document of prepare_value(None)
DefaultDoc == Doc(DEFAULT_MODE, <<>>)

\* A prepare_value without the branch for None
prepare_value_without_default(v) ==
    LET serialized == IF v.kind = "ConditionSet" THEN Serialize(v) ELSE v
    IN  IF serialized.kind # "dict"
        THEN [ret |-> NoReturn, exc |-> ValueError]
        ELSE [ret |-> serialized, exc |-> NoExc]

\* ConditionsField.prepare_value(value)
prepare_value(v) ==
    LET serialized == IF v.kind = "ConditionSet" THEN Serialize(v)
                      ELSE IF v.kind = "None" THEN DefaultDoc
                      ELSE v
    IN  IF serialized.kind # "dict"
        THEN [ret |-> NoReturn, exc |-> ValueError]
        ELSE [ret |-> serialized, exc |-> NoExc]

\* not value
Falsy(v) == v.kind = "None"

RowErrors ==
    {"ConditionChoiceNotFoundError", "ConditionOperatorNotFoundError",
     "InvalidConditionValueError"}

\* A to_python that keeps the submitted values as they are
to_python_unparsed(v, errors) ==
    LET r == Deserialize(v)
        message == IF r.code = "required"
                   THEN ErrorMessages.value_required
                   ELSE r.message
    IN  IF Falsy(v)
        THEN [ret |-> NoneV, exc |-> NoExc, condition_errors |-> errors]
        ELSE IF r.exc = "InvalidConditionModeError"
        THEN [ret |-> NoReturn,
              exc |-> ValidationError(r.message, "invalid_mode"),
              condition_errors |-> errors]
        ELSE IF r.exc \in RowErrors
        THEN [ret |-> NoReturn,
              exc |-> ValidationError(ErrorMessages.condition_errors,
                                      "condition_errors"),
              condition_errors |->
                  SetItem(errors, r.condition_index, message)]
        ELSE [ret |-> ConditionSetOf(v.mode, v.conditions), exc |-> NoExc,
              condition_errors |-> errors]

\* A to_python that stores the error's own message whatever its code
to_python_own_message(v, errors) ==
    LET r == Deserialize(v)
    IN  IF Falsy(v)
        THEN [ret |-> NoneV, exc |-> NoExc, condition_errors |-> errors]
        ELSE IF r.exc = "InvalidConditionModeError"
        THEN [ret |-> NoReturn,
              exc |-> ValidationError(r.message, "invalid_mode"),
              condition_errors |-> errors]
        ELSE IF r.exc \in RowErrors
        THEN [ret |-> NoReturn,
              exc |-> ValidationError(ErrorMessages.condition_errors,
                                      "condition_errors"),
              condition_errors |->
                  SetItem(errors, r.condition_index, r.message)]
        ELSE [ret |-> r.condition_set, exc |-> NoExc,
              condition_errors |-> errors]

\* A to_python that handles a mode error the way it handles a row error
to_python_mode_as_row(v, errors) ==
    LET r == Deserialize(v)
        message == IF r.code = "required"
                   THEN ErrorMessages.value_required
                   ELSE r.message
    IN  IF Falsy(v)
        THEN [ret |-> NoneV, exc |-> NoExc, condition_errors |-> errors]
        ELSE IF r.exc # ""
        THEN [ret |-> NoReturn,
              exc |-> ValidationError(ErrorMessages.condition_errors,
                                      "condition_errors"),
              condition_errors |->
                  SetItem(errors, r.condition_index, message)]
        ELSE [ret |-> r.condition_set, exc |-> NoExc,
              condition_errors |-> errors]

\* A to_python that records the error of every failing row
to_python_recording_all(v, errors) ==
    LET r == Deserialize(v)
        rows == [i \in DOMAIN v.conditions |->
                     DeserializeRow(v.conditions[i], i - 1)]
        failed == {i - 1 : i \in {j \in DOMAIN rows : rows[j].exc # ""}}
    IN  IF Falsy(v)
        THEN [ret |-> NoneV, exc |-> NoExc, condition_errors |-> errors]
        ELSE IF r.exc = "InvalidConditionModeError"
        THEN [ret |-> NoReturn,
              exc |-> ValidationError(r.message, "invalid_mode"),
              condition_errors |-> errors]
        ELSE IF r.exc \in RowErrors
        THEN [ret |-> NoReturn,
              exc |-> ValidationError(ErrorMessages.condition_errors,
                                      "condition_errors"),
              condition_errors |->
                  [i \in DOMAIN errors \cup failed |->
                       IF i \in failed
                       THEN IF rows[i + 1].code = "required"
                            THEN ErrorMessages.value_required
                            ELSE rows[i + 1].message
                       ELSE errors[i]]]
        ELSE [ret |-> r.condition_set, exc |-> NoExc,
              condition_errors |-> errors]

\* ConditionsField.to_python(value), with widget.condition_errors as it is
\* before the call: what is returned or raised, and condition_errors after
to_python(v, errors) ==
    LET r == Deserialize(v)
        message == IF r.code = "required"
                   THEN ErrorMessages.value_required
                   ELSE r.message
    IN  IF Falsy(v)
        THEN [ret |-> NoneV, exc |-> NoExc, condition_errors |-> errors]
        ELSE IF r.exc = "InvalidConditionModeError"
        THEN [ret |-> NoReturn,
              exc |-> ValidationError(r.message, "invalid_mode"),
              condition_errors |-> errors]
        ELSE IF r.exc \in RowErrors
        THEN [ret |-> NoReturn,
              exc |-> ValidationError(ErrorMessages.condition_errors,
                                      "condition_errors"),
              condition_errors |->
                  SetItem(errors, r.condition_index, message)]
        ELSE [ret |-> r.condition_set, exc |-> NoExc,
              condition_errors |-> errors]

----------------------------------------------------------------------------
(* ConditionsWidget.get_context *)

MsgChoiceGone ==
    "This choice no longer exists. You will need to delete the condition in order to make changes."
MsgOperatorGone ==
    "This operator no longer exists. You will need to delete the condition in order to make changes."

\* No error: None, or no 'error' key
NoError == ""

\* self.condition_errors.get(i)
GetError(errors, i) == IF i \in DOMAIN errors THEN errors[i] ELSE NoError

\* self.build_attrs(attrs or {}): the attributes carry no 'disabled'
BuildAttrs == [disabled |-> FALSE]

\* Attributes left as they are
KeepAttrs(widget_attrs) == widget_attrs

\* dict(widget_attrs, disabled='disabled')
DisableAttrs(widget_attrs) == [widget_attrs EXCEPT !.disabled = TRUE]

\* choice_widget.choices and operator_widget.choices, as the field built
\* them: the registry's choices, and nothing
ChoiceWidgetChoices == ChoiceIds
OperatorWidgetChoices == <<>>

\* value_field.prepare_value_for_widget(condition_value)
PrepareValueForWidget(value_field, condition_value) == condition_value

\* A context manager that leaves the appended choices on the widget
_add_widget_choices_kept(choices, items) ==
    [during |-> choices \o items, after |-> choices \o items]

\* with self._add_widget_choices(widget, items): the widget's choices
\* inside the block and after it
_add_widget_choices(choices, items) ==
    [during |-> choices \o items, after |-> choices]

\* One iteration of the loop over value['conditions'], for the condition at
\* index i, the widget_attrs and the choices of the two shared widgets the
\* iteration starts with: the row, as rendered and as serialized, and the
\* widget_attrs and widget choices it ends with.
RenderRow(condition, i, errors, widget_attrs, w_choices) ==
    LET choice_found == ChoiceFound(condition.choice)
        operator_found == /\ choice_found
                          /\ OperatorFound(condition.choice, condition.op)
        error == IF ~choice_found THEN MsgChoiceGone
                 ELSE IF ~operator_found THEN MsgOperatorGone
                 ELSE GetError(errors, i)
        valid == choice_found /\ operator_found
        attrs == IF ~valid THEN DisableAttrs(widget_attrs) ELSE widget_attrs
        choice_items == IF ~choice_found THEN <<condition.choice>> ELSE <<>>
        operator_items == IF ~operator_found \/ ~choice_found
                          THEN <<condition.op>>
                          ELSE OperatorIds(condition.choice)
        with_choice == _add_widget_choices(w_choices.choice, choice_items)
        with_operator == _add_widget_choices(w_choices.operator,
                                             operator_items)
        value_field == ValueFieldOf(condition.choice, condition.op)
        condition_value == IF valid /\ value_field # NoField
                           THEN PrepareValueForWidget(value_field,
                                                      condition.value)
                           ELSE condition.value
    IN  [row |-> [choiceID |-> condition.choice,
                  operatorID |-> condition.op,
                  value |-> condition_value,
                  valid |-> valid,
                  error |-> error,
                  choice_options |-> with_choice.during,
                  choice_attrs |-> attrs,
                  operator_options |-> with_operator.during,
                  operator_attrs |-> attrs,
                  hidden_inputs |-> ~valid],
         widget_attrs |-> attrs,
         widget_choices |-> [choice |-> with_choice.after,
                             operator |-> with_operator.after]]

RECURSIVE get_context_rows_dropping(_, _, _, _, _)
RECURSIVE get_context_rows(_, _, _, _, _)

\* A loop that leaves out the rows that do not resolve
get_context_rows_dropping(conditions, errors, i, widget_attrs, w_choices) ==
    IF i >= Len(conditions)
    THEN [rows |-> <<>>, widget_choices |-> w_choices]
    ELSE LET r == RenderRow(conditions[i + 1], i, errors, widget_attrs,
                            w_choices)
             rest == get_context_rows_dropping(conditions, errors, i + 1,
                                               r.widget_attrs,
                                               r.widget_choices)
         IN  [rows |-> (IF r.row.valid THEN <<r.row>> ELSE <<>>) \o rest.rows,
              widget_choices |-> rest.widget_choices]

\* for i, condition in enumerate(value['conditions']), from index i on: the
\* rows, and the choices the two shared widgets are left with
get_context_rows(conditions, errors, i, widget_attrs, w_choices) ==
    IF i >= Len(conditions)
    THEN [rows |-> <<>>, widget_choices |-> w_choices]
    ELSE LET r == RenderRow(conditions[i + 1], i, errors, widget_attrs,
                            w_choices)
             rest == get_context_rows(conditions, errors, i + 1,
                                      r.widget_attrs, r.widget_choices)
         IN  [rows |-> <<r.row>> \o rest.rows,
              widget_choices |-> rest.widget_choices]

\* ConditionsWidget.get_context(name, value, attrs): the rows of
\* 'rendered_rows' and 'serialized_rows', one record for both, and the
\* choices the two shared widgets are left with
get_context(v, errors, w_choices) ==
    LET r == get_context_rows(v.conditions, errors, 0, BuildAttrs, w_choices)
    IN  [context |-> [kind |-> "context", mode |-> v.mode,
                      conditions |-> r.rows],
         widget_choices |-> r.widget_choices]

----------------------------------------------------------------------------
(* ConditionsWidget.value_from_datadict *)

\* The form data: the <name>_last_id field (missing, a text that is no
\* integer, or an integer), the <name>_mode field, and for the index i the
\* fields <name>_choice[i], <name>_operator[i] and <name>_value[i], held at
\* rows[i + 1].  data.get() of a field that was not submitted is None.
FormData(last_id, mode, rows) ==
    [last_id |-> last_id, mode |-> mode, rows |-> rows]

LastIdMissing == [kind |-> "missing", n |-> 0]
LastIdText == [kind |-> "text", n |-> 0]
LastId(n) == [kind |-> "int", n |-> n]

\* data.get(f'{name}_choice[{i}]'), ..._operator[i], ..._value[i]
DataGet(d, i) ==
    IF i + 1 \in DOMAIN d.rows
    THEN d.rows[i + 1]
    ELSE Row(RawNone, RawNone, RawNone)

\* A scan that stops one index short: int(data[f'{name}_last_id'])
LastIdOfExclusive(d) == IF d.last_id.kind = "int" THEN d.last_id.n ELSE 0

\* int(data[f'{name}_last_id']) + 1, or 0 on KeyError and ValueError
LastIdOf(d) == IF d.last_id.kind = "int" THEN d.last_id.n + 1 ELSE 0

\* value_field.get_from_form_data(data, files, value_name)
GetFromFormData(value_field, d, i) == DataGet(d, i).value

\* The value of the condition at index i
DatadictValue(d, i) ==
    LET fields == DataGet(d, i)
        value_field == ValueFieldOf(fields.choice, fields.op)
    IN  IF ChoiceFound(fields.choice)
           /\ OperatorFound(fields.choice, fields.op)
        THEN IF value_field = NoField
             THEN RawNone
             ELSE GetFromFormData(value_field, d, i)
        ELSE fields.value

RECURSIVE datadict_conditions_known_only(_, _, _)
RECURSIVE datadict_conditions(_, _, _)

\* A loop that leaves out the rows whose choice or operator is unknown
datadict_conditions_known_only(d, i, last_id) ==
    LET fields == DataGet(d, i)
        rest == datadict_conditions_known_only(d, i + 1, last_id)
    IN  IF i >= last_id
        THEN <<>>
        ELSE IF fields.choice = RawNone
        THEN rest
        ELSE IF fields.op = RawNone
        THEN rest
        ELSE IF ~(ChoiceFound(fields.choice)
                  /\ OperatorFound(fields.choice, fields.op))
        THEN rest
        ELSE <<Row(fields.choice, fields.op, DatadictValue(d, i))>> \o rest

\* for i in range(last_id), from index i on
datadict_conditions(d, i, last_id) ==
    LET fields == DataGet(d, i)
        rest == datadict_conditions(d, i + 1, last_id)
    IN  IF i >= last_id
        THEN <<>>
        ELSE IF fields.choice = RawNone
        THEN rest
        ELSE IF fields.op = RawNone
        THEN rest
        ELSE <<Row(fields.choice, fields.op, DatadictValue(d, i))>> \o rest

\* ConditionsWidget.value_from_datadict(data, files, name)
value_from_datadict(d) ==
    Doc(d.mode, datadict_conditions(d, 0, LastIdOf(d)))

----------------------------------------------------------------------------
(* Calls on one ConditionsField and its widget *)

\* The modes a document can carry
DocModes == Modes \cup {"bogus"}

\* The conditions a document can carry: known and unknown choices and
\* operators, values the integer field accepts, misses and refuses, and an
\* operator without a value field with and without a value
DocRows ==
    {Row("status", "is", v) : v \in RawValues}
    \cup {Row("status", "any", v) : v \in {RawNone, "str:7"}}
    \cup {Row("status", "gone", "str:7"), Row("ghost", "is", "str:7"),
          Row("ghost", "gone", RawNone)}

\* The token model at rest
InitApi ==
    /\ policy = EmptyDict
    /\ root = ExampleTree
    /\ outcome = NotCalled
    /\ rootCalls = 0
    /\ validIds = NotWalked
    /\ InitToken

InitField ==
    /\ \/ value \in {NoneV, OtherV}
       \/ \E mode \in DocModes :
          \E n \in 0..MaxRows :
          \E conditions \in [1..n -> DocRows] :
             value = Doc(mode, conditions)
    /\ data = NoData
    /\ condition_errors = NoErrors
    /\ calls = <<>>
    /\ widget_choices = [choice |-> ChoiceWidgetChoices,
                         operator |-> OperatorWidgetChoices]
    /\ unit_choices = <<>>
    /\ widgets = <<>>
    /\ heap = <<>>
    /\ made = 0
    /\ InitApi

\* What the calls of op that did not raise returned
Returned(op) ==
    {calls[i].ret : i \in {j \in DOMAIN calls : /\ calls[j].op = op
                                                /\ calls[j].exc = NoExc}}

\* field.to_python(arg)
ToPython(arg) ==
    /\ Len(calls) < MaxCalls
    /\ arg.kind \in {"dict", "None"}
    /\ LET r == to_python(arg, condition_errors)
       IN  /\ condition_errors' = r.condition_errors
           /\ calls' = Append(calls, [op |-> "to_python", arg |-> arg,
                                      ret |-> r.ret, exc |-> r.exc,
                                      errors |-> r.condition_errors])
    /\ UNCHANGED <<policyVars, root, validIds, tokenVars, value, data,
                   widgetVars>>

\* field.prepare_value(arg)
PrepareValue(arg) ==
    /\ Len(calls) < MaxCalls
    /\ LET r == prepare_value(arg)
       IN  calls' = Append(calls, [op |-> "prepare_value", arg |-> arg,
                                   ret |-> r.ret, exc |-> r.exc,
                                   errors |-> condition_errors])
    /\ UNCHANGED <<policyVars, root, validIds, tokenVars, value, data,
                   condition_errors, widgetVars>>

\* widget.get_context(name, arg, attrs)
GetContext(arg) ==
    /\ Len(calls) < MaxCalls
    /\ arg.kind = "dict"
    /\ LET r == get_context(arg, condition_errors, widget_choices)
       IN  /\ widget_choices' = r.widget_choices
           /\ calls' = Append(calls, [op |-> "get_context", arg |-> arg,
                                      ret |-> r.context, exc |-> NoExc,
                                      errors |-> condition_errors])
    /\ UNCHANGED <<policyVars, root, validIds, tokenVars, value, data,
                   condition_errors, unit_choices, widgets, heap, made>>

NextField ==
    \/ \E arg \in {value} \cup Returned("prepare_value") : ToPython(arg)
    \/ \E arg \in {value, NoneV} \cup Returned("to_python") :
          PrepareValue(arg)
    \/ \E arg \in {value} \cup Returned("prepare_value") : GetContext(arg)

SpecField == InitField /\ [][NextField]_vars

\* The rows of a document in the opposite order, as resubmitted
Reordered(doc) ==
    Doc(doc.mode, [j \in 1..Len(doc.conditions) |->
                       doc.conditions[Len(doc.conditions) + 1 - j]])

\* One field, one document with a recognized mode
InitRedisplay ==
    /\ \E n \in 0..MaxRows :
       \E conditions \in [1..n -> DocRows] :
          value = Doc(MODE_ALL, conditions)
    /\ data = NoData
    /\ condition_errors = NoErrors
    /\ calls = <<>>
    /\ widget_choices = [choice |-> ChoiceWidgetChoices,
                         operator |-> OperatorWidgetChoices]
    /\ unit_choices = <<>>
    /\ widgets = <<>>
    /\ heap = <<>>
    /\ made = 0
    /\ InitApi

\* The document is submitted, and redisplayed, as it is or reordered
NextRedisplay ==
    \/ \E arg \in {value, Reordered(value)} : ToPython(arg)
    \/ \E arg \in {value, Reordered(value)} : GetContext(arg)

SpecRedisplay == InitRedisplay /\ [][NextRedisplay]_vars

----------------------------------------------------------------------------
(* Calls of value_from_datadict on the bounded form data *)

\* The fields submitted for one index
DataRows ==
    {Row(c, o, v) : c \in {RawNone, "status", "ghost"},
                    o \in {RawNone, "is", "any", "gone"},
                    v \in {RawNone, "str:7"}}

InitDatadict ==
    /\ \E last_id \in {LastIdMissing, LastIdText}
                      \cup {LastId(n) : n \in -1..MaxRows} :
       \E mode \in {RawNone, MODE_ALL, "bogus"} :
       \E n \in 0..MaxRows :
       \E rows \in [1..n -> DataRows] :
          data = FormData(last_id, mode, rows)
    /\ value = NoneV
    /\ condition_errors = NoErrors
    /\ calls = <<>>
    /\ InitWidgets
    /\ InitApi

\* widget.value_from_datadict(data, files, name)
ValueFromDatadict ==
    /\ calls = <<>>
    /\ calls' = <<[op |-> "value_from_datadict", arg |-> NoneV,
                   ret |-> value_from_datadict(data), exc |-> NoExc,
                   errors |-> condition_errors]>>
    /\ UNCHANGED <<policyVars, root, validIds, tokenVars, value, data,
                   condition_errors, widgetVars>>

NextDatadict == ValueFromDatadict

SpecDatadict == InitDatadict /\ [][NextDatadict]_vars

----------------------------------------------------------------------------
(* ListEditDictionaryField.to_python *)

MaxPairs == 3     \* (key, value) pairs of a submitted list

\* The raw form data of the field: a list of (key, value) pairs
PairList(items) == [kind |-> "list", items |-> items]

\* A dict, as the function from its keys
PyDict(map) == [kind |-> "pydict", map |-> map]

\* not value: None, or a list without pairs
NotValue(v) == v.kind = "None" \/ (v.kind = "list" /\ v.items = <<>>)

RECURSIVE dict_from_pairs_overwriting(_, _, _)
RECURSIVE dict_from_pairs(_, _, _)

\* A loop in which a later pair replaces an earlier one with its key
dict_from_pairs_overwriting(items, i, return_dict) ==
    IF i > Len(items)
    THEN [ret |-> PyDict(return_dict), exc |-> NoExc]
    ELSE LET key == items[i][1]
             val == items[i][2]
         IN  dict_from_pairs_overwriting(
                 items, i + 1,
                 [k \in DOMAIN return_dict \cup {key} |->
                      IF k = key THEN val ELSE return_dict[k]])

\* for key, val in value, from the i-th pair on
dict_from_pairs(items, i, return_dict) ==
    IF i > Len(items)
    THEN [ret |-> PyDict(return_dict), exc |-> NoExc]
    ELSE LET key == items[i][1]
             val == items[i][2]
         IN  IF key \in DOMAIN return_dict
             THEN [ret |-> NoReturn,
                   exc |-> ValidationError("All keys must be unique.",
                                           "duplicate_key_errors")]
             ELSE dict_from_pairs(items, i + 1,
                                  [k \in DOMAIN return_dict \cup {key} |->
                                       IF k = key THEN val
                                       ELSE return_dict[k]])

\* ListEditDictionaryField.to_python(value)
list_edit_to_python(v) ==
    IF NotValue(v)
    THEN [ret |-> PyDict(<<>>), exc |-> NoExc]
    ELSE dict_from_pairs(v.items, 1, <<>>)

PairKeys == {"a", "b"}
PairVals == {"x", "y"}

InitListEdit ==
    /\ \/ value = NoneV
       \/ \E n \in 0..MaxPairs :
          \E items \in [1..n -> PairKeys \X PairVals] :
             value = PairList(items)
    /\ data = NoData
    /\ condition_errors = NoErrors
    /\ calls = <<>>
    /\ InitWidgets
    /\ InitApi

\* field.to_python(value)
ListEditToPython ==
    /\ calls = <<>>
    /\ LET r == list_edit_to_python(value)
       IN  calls' = <<[op |-> "list_edit_to_python", arg |-> value,
                       ret |-> r.ret, exc |-> r.exc,
                       errors |-> NoErrors]>>
    /\ UNCHANGED <<policyVars, root, validIds, tokenVars, value, data,
                   condition_errors, widgetVars>>

NextListEdit == ListEditToPython

SpecListEdit == InitListEdit /\ [][NextListEdit]_vars

----------------------------------------------------------------------------
(* AmountSelectorWidget *)

MaxValue == 6     \* the stored values are -MaxValue..MaxValue
MaxUnits == 3     \* unit choices of one widget

\* An int, and None, as a stored value, an amount or a unit multiplier
IntV(n) == [kind |-> "int", n |-> n]
NoneU == [kind |-> "None", n |-> 0]

\* The 2-tuple decompress returns
Pair(amount, unit) == [kind |-> "pair", amount |-> amount, unit |-> unit]

TypeError == [type |-> "TypeError", code |-> "", message |-> ""]

RECURSIVE decompress_loop_forward(_, _, _, _)
RECURSIVE decompress_loop(_, _, _, _)

\* The loop over the choices from the first to the last
decompress_loop_forward(choices, i, unit_multiplier, v) ==
    LET at == Len(choices) + 1 - i
    IN  IF i = 0
        THEN unit_multiplier
        ELSE IF choices[at].kind = "None"
             THEN decompress_loop_forward(choices, i - 1,
                                          choices[at], v)
             ELSE IF v % choices[at].n = 0
                  THEN choices[at]
                  ELSE decompress_loop_forward(choices, i - 1,
                                               choices[at], v)

\* for choice in reversed(widget_choices), from the i-th choice down: the
\* unit_multiplier the loop ends with
decompress_loop(choices, i, unit_multiplier, v) ==
    IF i = 0
    THEN unit_multiplier
    ELSE IF choices[i].kind = "None"
         THEN decompress_loop(choices, i - 1, choices[i], v)
         ELSE IF v % choices[i].n = 0
              THEN choices[i]
              ELSE decompress_loop(choices, i - 1,
                                   choices[i], v)

\* AmountSelectorWidget.decompress(value); value // None is a TypeError
decompress(v, choices) ==
    IF v.kind = "None"
    THEN [ret |-> Pair(NoneU, NoneU), exc |-> NoExc]
    ELSE LET unit_multiplier == decompress_loop(choices,
                                                Len(choices),
                                                IntV(1), v.n)
         IN  IF unit_multiplier.kind = "None"
             THEN [ret |-> NoReturn, exc |-> TypeError]
             ELSE [ret |-> Pair(IntV(v.n \div unit_multiplier.n),
                                unit_multiplier),
                   exc |-> NoExc]

\* The form data of the two sub-widgets: <name>_0 and <name>_1, each a text
\* or, when the field was not submitted, None
AmountData(amount, unit) == [amount |-> amount, unit |-> unit]

\* The numerals int() reads
Numerals == (-MaxValue)..MaxValue
IsNumeral(text) == \E n \in Numerals : ToString(n) = text

\* int(text), for a numeral
IntOf(text) == CHOOSE n \in Numerals : ToString(n) = text

\* The amount without the conversion to the base unit
amount_value_unconverted(d) ==
    IF d.unit \in {"", RawNone}
    THEN [ret |-> NoneU, exc |-> NoExc]
    ELSE IF d.amount = RawNone \/ d.unit = RawNone
         THEN [ret |-> NoReturn, exc |-> TypeError]
         ELSE IF ~IsNumeral(d.amount) \/ ~IsNumeral(d.unit)
              THEN [ret |-> NoReturn, exc |-> ValueError]
              ELSE [ret |-> IntV(IntOf(d.amount)), exc |-> NoExc]

\* AmountSelectorWidget.value_from_datadict(data, files, name): int(None)
\* is a TypeError, int() of a text that is no numeral a ValueError
amount_value_from_datadict(d) ==
    IF d.unit \in {"", RawNone}
    THEN [ret |-> NoneU, exc |-> NoExc]
    ELSE IF d.amount = RawNone \/ d.unit = RawNone
         THEN [ret |-> NoReturn, exc |-> TypeError]
         ELSE IF ~IsNumeral(d.amount) \/ ~IsNumeral(d.unit)
              THEN [ret |-> NoReturn, exc |-> ValueError]
              ELSE [ret |-> IntV(IntOf(d.amount) * IntOf(d.unit)),
                    exc |-> NoExc]

\* The unit multipliers of the choices considered
UnitMultipliers == {IntV(1), IntV(2), IntV(3), NoneU}

\* The form data as the rendered amount and unit are submitted
Submitted(pair) == AmountData(ToString(pair.amount.n), ToString(pair.unit.n))

\* Other form data: fields left empty, not submitted, or no numeral
OtherAmountData ==
    {AmountData(a, u) : a \in {"", RawNone, "5", "x"},
                        u \in {"", RawNone, "2", "x"}}

InitAmount ==
    /\ value \in {IntV(n) : n \in Numerals} \cup {NoneU}
    /\ \E n \in 0..MaxUnits :
          unit_choices \in [1..n -> UnitMultipliers]
    /\ data = NoData
    /\ condition_errors = NoErrors
    /\ calls = <<>>
    /\ widget_choices = [choice |-> <<>>, operator |-> <<>>]
    /\ widgets = <<>>
    /\ heap = <<>>
    /\ made = 0
    /\ InitApi

\* widget.decompress(value)
Decompress ==
    /\ calls = <<>>
    /\ LET r == decompress(value, unit_choices)
       IN  calls' = <<[op |-> "decompress", arg |-> value,
                       ret |-> r.ret, exc |-> r.exc, errors |-> NoErrors]>>
    /\ UNCHANGED <<policyVars, root, validIds, tokenVars, value, data,
                   condition_errors, widgetVars>>

\* widget.value_from_datadict(data, files, name) on the form data d
AmountValueFromDatadict(d) ==
    /\ Len(calls) = 1
    /\ data' = d
    /\ LET r == amount_value_from_datadict(d)
       IN  calls' = Append(calls, [op |-> "value_from_datadict",
                                   arg |-> NoneU, ret |-> r.ret,
                                   exc |-> r.exc, errors |-> NoErrors])
    /\ UNCHANGED <<policyVars, root, validIds, tokenVars, value,
                   condition_errors, widgetVars>>

NextAmount ==
    \/ Decompress
    \/ /\ calls # <<>>
       /\ calls[1].exc = NoExc
       /\ calls[1].ret.amount.kind = "int"
       /\ AmountValueFromDatadict(Submitted(calls[1].ret))
    \/ \E d \in OtherAmountData : AmountValueFromDatadict(d)

SpecAmount == InitAmount /\ [][NextAmount]_vars

----------------------------------------------------------------------------
(* ConditionsWidget: the choices binding and __deepcopy__ *)

MaxCopies == 1    \* deep copies made of the widgets
MaxMade == 3      \* registries the factory makes in one behaviour
MaxReads == 2     \* reads of choices logged between two assignments

\* What is given as choices: a callable that makes a registry, or a registry
Factory == [kind |-> "factory", id |-> 0]
Instance(id) == [kind |-> "instance", id |-> id]

\* self._choices = None
Unresolved == [kind |-> "None", id |-> 0]

\* ConditionsWidget.__init__: the dicts are at the references given
Widget(choices, errors_ref, kwargs_ref) ==
    [_orig_choices |-> choices, _choices |-> Unresolved,
     condition_errors |-> errors_ref, choice_kwargs |-> kwargs_ref]

\* A read that does not keep what it resolved
choices_get_uncached(widget, n) ==
    IF widget._choices.kind = "None"
    THEN IF widget._orig_choices.kind = "factory"
         THEN [ret |-> Instance(n + 1), widget |-> widget, made |-> n + 1]
         ELSE [ret |-> widget._orig_choices, widget |-> widget, made |-> n]
    ELSE [ret |-> widget._choices, widget |-> widget, made |-> n]

\* The choices property, read when the factory has made n registries: what
\* it returns, the widget after the read, and the registries made by then
choices_get(widget, n) ==
    IF widget._choices.kind = "None"
    THEN IF widget._orig_choices.kind = "factory"
         THEN [ret |-> Instance(n + 1),
               widget |-> [widget EXCEPT !._choices = Instance(n + 1)],
               made |-> n + 1]
         ELSE [ret |-> widget._orig_choices,
               widget |-> [widget EXCEPT !._choices = widget._orig_choices],
               made |-> n]
    ELSE [ret |-> widget._choices, widget |-> widget, made |-> n]

\* The choices setter
choices_set(widget, choices) ==
    [widget EXCEPT !._orig_choices = choices, !._choices = Unresolved]

\* copy.copy(self) alone: every attribute refers to what the original's does
deepcopy_shallow(widget, h) == [obj |-> widget, heap |-> h]

\* ConditionsWidget.__deepcopy__(memo) with the dicts h: the copy, and the
\* dicts with the two new ones
deepcopy_widget(widget, h) ==
    [obj |-> [_orig_choices |-> widget._orig_choices,
              _choices |-> Unresolved,
              condition_errors |-> Len(h) + 1,
              choice_kwargs |-> Len(h) + 2],
     heap |-> h \o <<h[widget.condition_errors], h[widget.choice_kwargs]>>]

\* d[key] = val
SetEntry(d, key, val) ==
    [k \in DOMAIN d \cup {key} |-> IF k = key THEN val ELSE d[k]]

\* The log of one widget: what the reads of choices since the last
\* assignment returned, the factory calls they made, and the widget it was
\* copied from (0: constructed)
NewLog(w) == [reads |-> <<>>, invoked |-> 0, copy_of |-> w]

InitWidget ==
    /\ \E choices \in {Factory, Instance(0)} :
          widgets = <<Widget(choices, 1, 2)>>
    /\ heap = <<<<>>, <<>>>>
    /\ made = 0
    /\ calls = <<NewLog(0)>>
    /\ value = NoneV
    /\ data = NoData
    /\ condition_errors = NoErrors
    /\ widget_choices = [choice |-> <<>>, operator |-> <<>>]
    /\ unit_choices = <<>>
    /\ InitApi

WidgetFrame ==
    UNCHANGED <<policyVars, root, validIds, tokenVars, value, data,
                condition_errors, widget_choices, unit_choices>>

\* widgets[w].choices
ReadChoices(w) ==
    /\ Len(calls[w].reads) < MaxReads
    /\ LET r == choices_get(widgets[w], made)
       IN  /\ r.made <= MaxMade
           /\ widgets' = [widgets EXCEPT ![w] = r.widget]
           /\ made' = r.made
           /\ calls' = [calls EXCEPT
                            ![w].reads = Append(@, r.ret),
                            ![w].invoked = @ + (r.made - made)]
    /\ UNCHANGED heap
    /\ WidgetFrame

\* widgets[w].choices = choices
SetChoices(w, choices) ==
    /\ widgets' = [widgets EXCEPT ![w] = choices_set(@, choices)]
    /\ calls' = [calls EXCEPT ![w].reads = <<>>, ![w].invoked = 0]
    /\ UNCHANGED <<heap, made>>
    /\ WidgetFrame

\* copy.deepcopy(widgets[w])
DeepCopy(w) ==
    /\ Len(widgets) < 1 + MaxCopies
    /\ LET r == deepcopy_widget(widgets[w], heap)
       IN  /\ widgets' = Append(widgets, r.obj)
           /\ heap' = r.heap
    /\ calls' = Append(calls, NewLog(w))
    /\ UNCHANGED made
    /\ WidgetFrame

\* widgets[w].condition_errors[i] = message
SetError(w, i, message) ==
    /\ heap' = [heap EXCEPT ![widgets[w].condition_errors] =
                                SetEntry(@, i, message)]
    /\ UNCHANGED <<widgets, made, calls>>
    /\ WidgetFrame

\* widgets[w].choice_kwargs[key] = val
SetKwarg(w, key, val) ==
    /\ heap' = [heap EXCEPT ![widgets[w].choice_kwargs] =
                                SetEntry(@, key, val)]
    /\ UNCHANGED <<widgets, made, calls>>
    /\ WidgetFrame

\* Reads of and assignments to choices, on a widget and its copies
NextBinding ==
    \/ \E w \in DOMAIN widgets : ReadChoices(w)
    \/ \E w \in DOMAIN widgets :
       \E choices \in {Factory, Instance(0)} : SetChoices(w, choices)
    \/ \E w \in DOMAIN widgets : DeepCopy(w)

SpecBinding == InitWidget /\ [][NextBinding]_vars

\* Copies, and what a form does with a widget and its copies
NextCopy ==
    \/ \E w \in DOMAIN widgets : DeepCopy(w)
    \/ \E w \in DOMAIN widgets : ReadChoices(w)
    \/ \E w \in DOMAIN widgets :
       \E message \in {"e1", "e2"} : SetError(w, 0, message)
    \/ \E w \in DOMAIN widgets :
       \E val \in {"r1", "r2"} : SetKwarg(w, "request", val)

SpecCopy == InitWidget /\ [][NextCopy]_vars

----------------------------------------------------------------------------
(* What the claims are stated in: written without the operators above *)

Called == outcome.status # "none"
Accepted == outcome.status = "ok"
Rejected == outcome.status = "ValidationError"

\* The keys of a mapping, and the value under one of them
Keys(d) == {d.items[i][1] : i \in DOMAIN d.items}
At(d, k) == LET i == CHOOSE j \in DOMAIN d.items : d.items[j][1] = k
            IN  d.items[i][2]

\* The policy is {"resources": <a non-empty mapping>}
HasResources ==
    /\ policy.kind = "dict"
    /\ Keys(policy) = {"resources"}
    /\ At(policy, "resources").kind = "dict"
    /\ At(policy, "resources").items # <<>>

Resources == At(policy, "resources")

\* The entries of the resources mapping other than the wildcard's, in the
\* mapping's order
Named == SelectSeq(Resources.items, LAMBDA e : e[1] # "*")

\* A mapping with an allow and/or a block key, each holding a list
WellFormedRules(v) ==
    /\ v.kind = "dict"
    /\ Keys(v) \cap {"allow", "block"} # {}
    /\ \A k \in Keys(v) \cap {"allow", "block"} : At(v, k).kind = "list"

\* A mapping of string keys to well-formed rules (possibly of no key at all)
WellFormedNamed(v) ==
    /\ v.kind = "dict"
    /\ \A k \in Keys(v) : k # IntKey /\ WellFormedRules(At(v, k))

\* The wildcard section is absent or well-formed
WildcardFine ==
    "*" \in Keys(Resources) => WellFormedRules(At(Resources, "*"))

RECURSIVE ReachFrom(_, _)
\* The nodes reachable from the nodes S through either kind of child
ReachFrom(tree, S) ==
    LET kids(n) == {tree.list_child_resources[n][i] :
                        i \in DOMAIN tree.list_child_resources[n]} \cup
                   {tree.item_child_resources[n][i] :
                        i \in DOMAIN tree.item_child_resources[n]}
        T == S \cup UNION {kids(n) : n \in S}
    IN  IF T = S THEN S ELSE ReachFrom(tree, T)

\* The policy ids of the nodes of the tree that have one
ReachableIds(tree) ==
    {tree.policy_id[n] :
        n \in {m \in ReachFrom(tree, {RootNode}) :
                   tree.policy_id[m] # NoPolicyId}}

----------------------------------------------------------------------------
(* Claims *)

\* C1: validate_policy rejects every policy that is not a mapping with a
\* ValidationError, and accepts the empty mapping at once: without a
\* resources key being required and without get_root_resource being called
\* (so also on the base class, where that call would raise).
C1_MappingCheck ==
    Called =>
        /\ policy.kind # "dict" =>
              outcome = Fail(MsgNotObject, <<>>) /\ rootCalls = 0
        /\ (policy.kind = "dict" /\ policy.items = <<>>) =>
              Accepted /\ rootCalls = 0

C1_Witness ==
    /\ Called
    /\ policy = EmptyDict
    /\ root = BaseClass
    /\ Accepted

\* C2: for every non-empty policy mapping, validate_policy fails with a
\* ValidationError when the resources key is absent, when its value is not
\* a mapping, or when its value is an empty mapping.
C2_ResourcesCheck ==
    (Called /\ policy.kind = "dict" /\ policy.items # <<>>) =>
        /\ "resources" \notin Keys(policy) => Rejected
        /\ ("resources" \in Keys(policy) /\ Resources.kind # "dict") =>
              Rejected
        /\ ("resources" \in Keys(policy) /\ Resources.kind = "dict"
                /\ Resources.items = <<>>) => Rejected

C2_Witness ==
    /\ Called
    /\ policy = PolicyOf(EmptyDict)
    /\ outcome = Fail(MsgResourcesEmpty, <<>>)

\* C3: every key of the resources mapping other than '*' must be in the
\* valid-id set of the resource tree: a policy with a named key that is not
\* in it is never accepted; when the wildcard section is well-formed (or
\* absent) and every named key before the first unknown one is valid with
\* a well-formed section, the error names that unknown key; and an
\* invalid-id error never names '*', only a named key outside the set.
C3_Membership ==
    (Called /\ HasResources /\ root.implemented) =>
        LET valid == ReachableIds(root)
            unknown == {i \in DOMAIN Named : Named[i][1] \notin valid}
        IN  /\ unknown # {} => ~Accepted
            /\ \A i \in unknown :
                  (/\ WildcardFine
                   /\ \A j \in 1..(i - 1) :
                         /\ Named[j][1] \in valid
                         /\ WellFormedNamed(Named[j][2]))
                  => outcome = Fail(MsgInvalidId, <<Named[i][1]>>)
            /\ outcome.msg = MsgInvalidId =>
                  /\ outcome.at[1] # "*"
                  /\ outcome.at[1] \in Keys(Resources) \ valid

\* {"resources": {"*": {"allow": [..]}, "a": {"allow": [..]}}} on a tree
\* whose ids are root and b
C3_Witness ==
    /\ Called
    /\ root = ExampleTree
    /\ policy = PolicyOf(Dict(<<<<"*", RulesDict("list", "absent")>>,
                               <<"a", Dict(<<<<"allow", ListV>>>>)>>>>))
    /\ outcome = Fail(MsgInvalidId, <<"a">>)

\* The policy is {"resources": {k: v}} for one named key k that is a valid
\* id of the tree
OneValidNamed ==
    /\ HasResources
    /\ root.implemented
    /\ Len(Resources.items) = 1
    /\ Len(Named) = 1
    /\ Named[1][1] \in ReachableIds(root)

\* C4 as stated: a named section under a valid id that contains only an
\* allow and/or a block key, each holding a list, validates successfully.
C4_FlatNamedSectionAccepted ==
    (Called /\ OneValidNamed) =>
        LET v == Named[1][2]
        IN  (/\ v.kind = "dict"
             /\ Keys(v) # {}
             /\ Keys(v) \subseteq {"allow", "block"}
             /\ \A k \in Keys(v) : At(v, k).kind = "list")
            => Accepted

\* C4, amended: a named section is a mapping of subsections.  A policy
\* whose wildcard section is absent or well-formed and whose named keys are
\* all valid ids validates successfully when every named section is a
\* mapping whose keys are strings and whose every value is a mapping with
\* an allow and/or a block key, each holding a list; a named section that
\* holds the allow list directly is rejected, since the value under
\* "allow" is then no mapping.
C4_NestedNamedSectionAccepted ==
    (Called /\ HasResources /\ root.implemented) =>
        /\ (/\ WildcardFine
            /\ \A i \in DOMAIN Named :
                  /\ Named[i][1] \in ReachableIds(root)
                  /\ WellFormedNamed(Named[i][2]))
           => Accepted
        /\ (OneValidNamed /\ Named[1][2] = Dict(<<<<"allow", ListV>>>>))
           => outcome = Fail(MsgSectionNotObject,
                             <<"resources", Named[1][1], "allow">>)

\* {"resources": {"a": {"*": {"allow": [..]}}}} with a a valid id
C4_Witness ==
    /\ Called
    /\ root = DeepTree
    /\ policy = PolicyOf(Dict(<<<<"a",
                    Dict(<<<<"*", RulesDict("list", "absent")>>>>)>>>>))
    /\ Accepted

\* C5 as stated: a named section under a valid id that has neither an
\* allow nor a block key is rejected with a ValidationError.
C5_NamedSectionWithoutRulesRejected ==
    (Called /\ OneValidNamed) =>
        LET v == Named[1][2]
        IN  (v.kind = "dict" /\ Keys(v) \cap {"allow", "block"} = {})
            => Rejected

\* C5, amended: the allow/block requirement is on the subsections of a
\* named section.  Under a valid id, the empty mapping is accepted (it has
\* no subsection to check), and a section whose first subsection is, under
\* a string key, a mapping with neither an allow nor a block key is
\* rejected with the error that names resources.<id>.<subsection>.
C5_SubsectionWithoutRulesRejected ==
    (Called /\ OneValidNamed) =>
        LET v == Named[1][2]
        IN  /\ v = EmptyDict => Accepted
            /\ (/\ v.kind = "dict"
                /\ v.items # <<>>
                /\ v.items[1][1] # IntKey
                /\ v.items[1][2].kind = "dict"
                /\ Keys(v.items[1][2]) \cap {"allow", "block"} = {})
               => outcome = Fail(MsgSectionNoRules,
                                 <<"resources", Named[1][1], v.items[1][1]>>)

\* {"resources": {"b": {"*": {}}}} with b a valid id
C5_Witness ==
    /\ Called
    /\ root = ExampleTree
    /\ policy = PolicyOf(Dict(<<<<"b", Dict(<<<<"*", EmptyDict>>>>)>>>>))
    /\ outcome = Fail(MsgSectionNoRules, <<"resources", "b", "*">>)

\* C6: when the resources mapping has a '*' section, the call fails with a
\* ValidationError that names resources.* exactly when that section is not
\* a mapping with at least one of allow and block, every one present
\* holding a list; and a policy whose only section is a '*' section of
\* that shape is accepted.
C6_WildcardSection ==
    (Called /\ HasResources /\ "*" \in Keys(Resources)) =>
        LET w == At(Resources, "*")
        IN  /\ ~WellFormedRules(w) <=>
                  (Rejected /\ outcome.at = <<"resources", "*">>)
            /\ (WellFormedRules(w) /\ Len(Resources.items) = 1) => Accepted

\* {"resources": {"*": {"allow": [..], "block": [..]}}}
C6_Witness ==
    /\ Called
    /\ policy = PolicyOf(Dict(<<<<"*", RulesDict("list", "list")>>>>))
    /\ Accepted

\* C7: the wildcard section is checked before any named section, whatever
\* the order of the mapping: for a policy with a malformed wildcard section
\* and a named key that is not a valid id, the failure reported is the
\* wildcard section's, and the resource tree has not been asked for.
C7_WildcardFirst ==
    (/\ Called
     /\ HasResources
     /\ "*" \in Keys(Resources)
     /\ ~WellFormedRules(At(Resources, "*"))
     /\ \E i \in DOMAIN Named :
           ~root.implemented \/ Named[i][1] \notin ReachableIds(root))
    => /\ Rejected
       /\ outcome.at = <<"resources", "*">>
       /\ rootCalls = 0

\* The unknown key a comes first in the mapping, the malformed '*' second.
C7_Witness ==
    /\ Called
    /\ root = ExampleTree
    /\ policy = PolicyOf(Dict(<<<<"a", EmptyDict>>, <<"*", ListV>>>>))
    /\ outcome = Fail(MsgSectionNotObject, <<"resources", "*">>)

\* The first named entry that is an unknown id or whose section is not
\* well-formed (0: there is none)
FirstBadNamed ==
    LET bad == {i \in DOMAIN Named :
                   \/ Named[i][1] \notin ReachableIds(root)
                   \/ ~WellFormedNamed(Named[i][2])}
    IN  IF bad = {} THEN 0 ELSE CHOOSE i \in bad : \A j \in bad : i <= j

\* C8 as stated: for a policy with a malformed section under a valid named
\* key and another named key that is not a valid id, the membership failure
\* is the one reported, whichever key comes first.
C8_MembershipBeforeShape ==
    (/\ Called
     /\ HasResources
     /\ root.implemented
     /\ WildcardFine
     /\ \E i, j \in DOMAIN Named :
           /\ Named[i][1] \in ReachableIds(root)
           /\ ~WellFormedNamed(Named[i][2])
           /\ Named[j][1] \notin ReachableIds(root))
    => (Rejected /\ outcome.msg = MsgInvalidId)

\* C8, amended: the call reports one failure, the first one met in the
\* order: mapping check, resources check, wildcard section, and then the
\* named keys one at a time in the order of the mapping, the membership
\* check of a key directly followed by the shape check of its section.  So
\* with the wildcard section fine, the failure is that of the first named
\* key that is unknown or malformed: the membership failure if that key is
\* unknown, and otherwise a failure of that key's section, even if an
\* unknown key follows.
C8_FirstFailureInKeyOrder ==
    (Called /\ HasResources /\ root.implemented /\ WildcardFine) =>
        LET i == FirstBadNamed
        IN  /\ i = 0 <=> Accepted
            /\ (i # 0 /\ Named[i][1] \notin ReachableIds(root))
               => outcome = Fail(MsgInvalidId, <<Named[i][1]>>)
            /\ (i # 0 /\ Named[i][1] \in ReachableIds(root))
               => /\ ~Accepted
                  /\ outcome.msg # MsgInvalidId
                  /\ outcome.at[2] = Named[i][1]

\* The valid key b with a malformed section comes first, the unknown key a
\* second: the failure reported is the one of b's section.
C8_Witness ==
    /\ Called
    /\ root = ExampleTree
    /\ policy = PolicyOf(Dict(<<<<"b", Dict(<<<<"*", ListV>>>>)>>,
                               <<"a", EmptyDict>>>>))
    /\ outcome = Fail(MsgSectionNotObject, <<"resources", "b", "*">>)

\* C9: for every finite resource tree, _get_valid_policy_ids returns, and
\* returns exactly the policy ids of the nodes reachable from the root
\* through list and item children that have one.
C9_ValidIds ==
    /\ ~validIds.called => ENABLED WalkTree
    /\ validIds.called => validIds.ids = ReachableIds(root)

\* A -> [B, C], A 'root', B 'b', C without an id, gives {'root', 'b'}
C9_Witness ==
    /\ validIds.called
    /\ root = ExampleTree
    /\ validIds.ids = {"root", "b"}

\* C10 as stated: no persisted token holds a policy that validate_policy
\* rejects.
C10_PersistedPoliciesValid ==
    \A k \in DOMAIN db : validate_policy(root, db[k]).result = Ok

\* C10, amended: save() does not validate the policy.  A save ends either
\* with super().save() raising, the table unchanged, or with the row of the
\* instance holding the instance's policy as it is, whether or not
\* validate_policy accepts that policy.
C10_SavePersistsPolicyAsIs ==
    [][saves' = saves + 1 =>
          \/ /\ saveTrace' = <<"super.save raised">>
             /\ db' = db
          \/ /\ saveTrace'[1] = "persisted"
             /\ token'.pk \in DOMAIN db'
             /\ db'[token'.pk] = token.policy
             /\ token'.policy = token.policy]_vars

\* A row holds a policy that validate_policy rejects.
C10_Witness ==
    /\ saveTrace # <<>>
    /\ saveTrace[1] = "persisted"
    /\ token.pk \in DOMAIN db
    /\ db[token.pk] = EmptyResourcesPolicy
    /\ validate_policy(root, db[token.pk]).result.status = "ValidationError"

\* C11: over any sequence of saves, webapi_token_updated is emitted exactly
\* once by each save of an instance that had a primary key before the save
\* and whose row was persisted, and never by the save that creates the
\* record; an emission comes after the row was persisted, and a save whose
\* super().save() raises emits nothing.
C11_SignalOncePerUpdate ==
    [][saves' = saves + 1 =>
          LET sent == {i \in DOMAIN saveTrace' :
                           saveTrace'[i] = "webapi_token_updated"}
              persisted == {i \in DOMAIN saveTrace' :
                                saveTrace'[i] = "persisted"}
          IN  /\ signals' - signals = Cardinality(sent)
              /\ Cardinality(sent) =
                     IF token.pk # NoPk /\ persisted # {} THEN 1 ELSE 0
              /\ \A i \in sent : \E j \in persisted : j < i
              /\ token.pk = NoPk => sent = {}
              /\ saveTrace' = <<"super.save raised">> =>
                     /\ sent = {}
                     /\ signals' = signals]_vars

\* A record was created by one save and updated by two more: two emissions,
\* each after the row was persisted.
C11_Witness ==
    /\ saves = 3
    /\ updates = 2
    /\ signals = 2
    /\ token.pk # NoPk
    /\ saveTrace = <<"persisted", "webapi_token_updated">>

----------------------------------------------------------------------------
(* What the claims about the form classes are stated in *)

\* The to_python calls made with a document
ToPythonCalls ==
    {k \in DOMAIN calls : /\ calls[k].op = "to_python"
                           /\ calls[k].arg.kind = "dict"}

\* widget.condition_errors as the k-th call found it
ErrorsBefore(k) == IF k = 1 THEN <<>> ELSE calls[k - 1].errors

RecognizedMode(doc) == doc.mode \in {"always", "all", "any"}

\* The indices of the rows of a document whose deserialization fails
BadRows(doc) ==
    {i \in 0..(Len(doc.conditions) - 1) :
         DeserializeRow(doc.conditions[i + 1], i).exc # ""}

FirstBadRow(doc) == CHOOSE i \in BadRows(doc) : \A j \in BadRows(doc) : i <= j

\* C12: when deserialization in to_python fails on a row (choice not found,
\* operator not found, invalid value), to_python stores a message in
\* widget.condition_errors under the index of that row and raises a
\* ValidationError with the code 'condition_errors'; the message stored is
\* the field's 'value_required' message when the error has code 'required',
\* and the error's own message otherwise.
C12_RowErrorRecorded ==
    \A k \in ToPythonCalls :
        LET doc == calls[k].arg
            i == FirstBadRow(doc)
            e == DeserializeRow(doc.conditions[i + 1], i)
        IN  RecognizedMode(doc) /\ BadRows(doc) # {} =>
                /\ calls[k].exc.type = "ValidationError"
                /\ calls[k].exc.code = "condition_errors"
                /\ i \in DOMAIN calls[k].errors
                /\ calls[k].errors[i] =
                       IF e.code = "required"
                       THEN "A value is required for this condition."
                       ELSE e.message
                /\ condition_errors = calls[Len(calls)].errors

\* Row 1 lacks the value its operator requires: the 'value_required'
\* message is stored under 1.
C12_Witness ==
    /\ calls # <<>>
    /\ calls[1].op = "to_python"
    /\ calls[1].arg = Doc("all", <<Row("status", "is", "int:7"),
                                   Row("status", "is", RawNone)>>)
    /\ calls[1].exc.code = "condition_errors"
    /\ condition_errors = (1 :> "A value is required for this condition.")

\* C13 as stated: after any sequence of to_python calls on one field,
\* condition_errors holds exactly one entry when the most recent call failed
\* on a row and none when it succeeded.
C13_OneFailureAtATime ==
    \A k \in ToPythonCalls :
        /\ calls[k].exc.code = "condition_errors" =>
               Cardinality(DOMAIN calls[k].errors) = 1
        /\ calls[k].exc = NoExc => DOMAIN calls[k].errors = {}

\* C14: when the submitted mode is none of ALWAYS, ALL and ANY, to_python
\* raises a ValidationError with the code 'invalid_mode', returns no
\* condition set and leaves widget.condition_errors as it was; with a
\* recognized mode and valid rows it returns a condition set.
C14_InvalidMode ==
    \A k \in ToPythonCalls :
        LET doc == calls[k].arg
        IN  /\ ~RecognizedMode(doc) =>
                /\ calls[k].exc.type = "ValidationError"
                /\ calls[k].exc.code = "invalid_mode"
                /\ calls[k].ret.kind # "ConditionSet"
                /\ calls[k].errors = ErrorsBefore(k)
            /\ RecognizedMode(doc) /\ BadRows(doc) = {} =>
                /\ calls[k].exc = NoExc
                /\ calls[k].ret.kind = "ConditionSet"
                /\ calls[k].ret.mode = doc.mode

\* An unrecognized mode on a document whose row 0 does not resolve either
C14_Witness ==
    /\ calls # <<>>
    /\ calls[1].op = "to_python"
    /\ calls[1].arg = Doc("bogus", <<Row("ghost", "is", "str:7")>>)
    /\ calls[1].exc.code = "invalid_mode"
    /\ condition_errors = <<>>

\* The prepare_value calls
PrepareValueCalls == {k \in DOMAIN calls : calls[k].op = "prepare_value"}

\* C15: prepare_value(None) yields the default document, with the mode
\* ALWAYS and no conditions; a ConditionSet is replaced by its serialized
\* document, a dict is returned as it is, and any other value raises
\* ValueError.
C15_PrepareValue ==
    \A k \in PrepareValueCalls :
        LET arg == calls[k].arg
        IN  /\ arg.kind = "None" =>
                /\ calls[k].exc = NoExc
                /\ calls[k].ret = [kind |-> "dict", mode |-> "always",
                                   conditions |-> <<>>]
            /\ arg.kind = "ConditionSet" =>
                /\ calls[k].exc = NoExc
                /\ calls[k].ret = Serialize(arg)
            /\ arg.kind = "dict" =>
                /\ calls[k].exc = NoExc
                /\ calls[k].ret = arg
            /\ arg.kind \notin {"None", "ConditionSet", "dict"} =>
                /\ calls[k].exc.type = "ValueError"
                /\ calls[k].ret.kind # "dict"

\* prepare_value was called with None, and with the ConditionSet that
\* to_python returned for the default document.
C15_Witness ==
    /\ Len(calls) = 3
    /\ calls[1].op = "prepare_value"
    /\ calls[1].arg = NoneV
    /\ calls[1].ret = [kind |-> "dict", mode |-> "always",
                       conditions |-> <<>>]
    /\ calls[2].op = "to_python"
    /\ calls[3].op = "prepare_value"
    /\ calls[3].arg.kind = "ConditionSet"
    /\ calls[3].arg = calls[2].ret

\* to_python(doc) returned cs at call j, prepare_value(cs) was call k
Reserialized(j, k) ==
    /\ j \in ToPythonCalls
    /\ k \in PrepareValueCalls
    /\ calls[j].exc = NoExc
    /\ calls[k].arg = calls[j].ret

\* prepare_value(cs) returned doc at call j, to_python(doc) was call k
Redeserialized(j, k) ==
    /\ j \in PrepareValueCalls
    /\ k \in ToPythonCalls
    /\ calls[j].arg.kind = "ConditionSet"
    /\ calls[k].arg = calls[j].ret

\* to_python(prepare_value(cs)) = cs for every cs that to_python returned
SetRoundTrip ==
    \A j, k \in DOMAIN calls :
        Redeserialized(j, k) => /\ calls[k].exc = NoExc
                                /\ calls[k].ret = calls[j].arg

SerializedValueOf(row) == IF row.op = "any" THEN "None" ELSE "int:7"

C17_FailFast ==
    \A k \in ToPythonCalls :
        LET doc == calls[k].arg
        IN  /\ ErrorsBefore(k) = <<>>
            /\ RecognizedMode(doc)
            /\ BadRows(doc) # {}
            => /\ DOMAIN calls[k].errors = {FirstBadRow(doc)}
               /\ calls[k].exc.type = "ValidationError"
               /\ calls[k].ret.kind # "ConditionSet"

\* Row 0 has an unknown choice, row 1 an unknown operator: the error of
\* row 0 is the only one recorded.
C17_Witness ==
    /\ Len(calls) = 1
    /\ calls[1].op = "to_python"
    /\ calls[1].arg = Doc("all", <<Row("ghost", "is", "str:7"),
                                   Row("status", "gone", "str:7")>>)
    /\ DOMAIN condition_errors = {0}
    /\ calls[1].exc.code = "condition_errors"

\* The get_context calls
GetContextCalls == {k \in DOMAIN calls : calls[k].op = "get_context"}

\* The choice, and the operator, of a row resolve against the registry
Resolves(row) == row.choice = "status" /\ row.op \in {"is", "any"}
OperatorOnlyUnresolved(row) ==
    row.choice = "status" /\ row.op \notin {"is", "any"}

\* C18: get_context emits exactly one serialized row for each condition of
\* the document, in the order of the document, each with the stored choice
\* and operator ids as they are; every row whose choice or operator does not
\* resolve is emitted with valid = false and an error message of its own.
C18_NoRowDropped ==
    \A k \in GetContextCalls :
        LET doc == calls[k].arg
            rows == calls[k].ret.conditions
        IN  /\ Len(rows) = Len(doc.conditions)
            /\ \A i \in DOMAIN doc.conditions :
                   /\ rows[i].choiceID = doc.conditions[i].choice
                   /\ rows[i].operatorID = doc.conditions[i].op
                   /\ rows[i].valid = Resolves(doc.conditions[i])
                   /\ ~Resolves(doc.conditions[i]) =>
                          rows[i].error \in {MsgChoiceGone, MsgOperatorGone}

\* Two rows that do not resolve: both are emitted, both with their error.
C18_Witness ==
    /\ Len(calls) = 1
    /\ calls[1].op = "get_context"
    /\ calls[1].arg = Doc("all", <<Row("ghost", "is", "str:7"),
                                   Row("status", "gone", "str:7")>>)
    /\ Len(calls[1].ret.conditions) = 2
    /\ calls[1].ret.conditions[1].error = MsgChoiceGone
    /\ calls[1].ret.conditions[2].error = MsgOperatorGone

\* C19 as stated: for a row whose choice resolves and whose operator does
\* not, the choice dropdown is not rendered disabled and is built from the
\* live list of choices, and the operator dropdown has the stored operator
\* id as its one added option and is rendered disabled.
C19_ChoiceStaysEditable ==
    \A k \in GetContextCalls :
        \A i \in DOMAIN calls[k].arg.conditions :
            LET condition == calls[k].arg.conditions[i]
                row == calls[k].ret.conditions[i]
            IN  OperatorOnlyUnresolved(condition) =>
                    /\ ~row.choice_attrs.disabled
                    /\ row.choice_options = <<"status">>
                    /\ row.operator_options = <<condition.op>>
                    /\ row.operator_attrs.disabled

\* C19, amended: for a row whose choice resolves and whose operator does
\* not, both dropdowns are rendered disabled; the choice dropdown is built
\* from the live list of choices with no option added, the operator
\* dropdown has the stored operator id as its one option, and hidden inputs
\* carry the two ids.
C19_BothDropdownsDisabled ==
    \A k \in GetContextCalls :
        \A i \in DOMAIN calls[k].arg.conditions :
            LET condition == calls[k].arg.conditions[i]
                row == calls[k].ret.conditions[i]
            IN  OperatorOnlyUnresolved(condition) =>
                    /\ row.choice_attrs.disabled
                    /\ row.choice_options = <<"status">>
                    /\ row.operator_options = <<condition.op>>
                    /\ row.operator_attrs.disabled
                    /\ row.hidden_inputs
                    /\ ~row.valid

\* The one row of the document has the choice "status" and the unknown
\* operator "gone".
C19_Witness ==
    /\ Len(calls) = 1
    /\ calls[1].op = "get_context"
    /\ calls[1].arg = Doc("all", <<Row("status", "gone", "str:7")>>)
    /\ calls[1].ret.conditions[1].choice_attrs.disabled
    /\ calls[1].ret.conditions[1].operator_options = <<"gone">>

\* The indices from 0 to last_id of the form data that carry both a choice
\* field and an operator field
Scanned(d) ==
    {i \in 0..(Len(d.rows) - 1) : /\ d.rows[i + 1].choice # "None"
                                  /\ d.rows[i + 1].op # "None"
                                  /\ d.last_id.kind = "int"
                                  /\ i <= d.last_id.n}

\* The j-th index of a set of indices, in ascending order
Nth(indices, j) ==
    CHOOSE i \in indices : Cardinality({m \in indices : m < i}) = j - 1

DatadictCalled == calls # <<>> /\ calls[1].op = "value_from_datadict"

\* C20 as stated: every index that carries both a choice and an operator
\* field yields a condition with the submitted choice id, operator id and
\* value as they were submitted, whether or not the registry knows them.
C20_SubmittedRowsVerbatim ==
    DatadictCalled =>
        LET conditions == calls[1].ret.conditions
        IN  /\ Len(conditions) = Cardinality(Scanned(data))
            /\ \A j \in DOMAIN conditions :
                   conditions[j] = data.rows[Nth(Scanned(data), j) + 1]

\* C20, amended: every index that carries both a choice and an operator
\* field yields a condition with the submitted choice id and operator id,
\* whether or not the registry knows them; the value is the submitted one,
\* except that it is None for an operator that resolves and takes no value.
C20_ScannedRowsKept ==
    DatadictCalled =>
        LET conditions == calls[1].ret.conditions
        IN  /\ Len(conditions) = Cardinality(Scanned(data))
            /\ \A j \in DOMAIN conditions :
                   LET fields == data.rows[Nth(Scanned(data), j) + 1]
                   IN  /\ conditions[j].choice = fields.choice
                       /\ conditions[j].op = fields.op
                       /\ conditions[j].value =
                              IF fields.choice = "status" /\ fields.op = "any"
                              THEN "None"
                              ELSE fields.value

\* An unknown choice at index 0 and an unknown operator at index 1, both
\* with a value: both conditions are returned as submitted.
C20_Witness ==
    /\ DatadictCalled
    /\ data = FormData(LastId(1), "all",
                       <<Row("ghost", "is", "str:7"),
                         Row("status", "gone", "str:7")>>)
    /\ calls[1].ret.conditions = <<Row("ghost", "is", "str:7"),
                                   Row("status", "gone", "str:7")>>

\* C30: validate_policy calls get_root_resource only when the resources
\* mapping has a key other than the wildcard: an empty policy, and a policy
\* whose resources mapping holds only a well-formed '*' section, are
\* accepted without get_root_resource being called, on the base class too,
\* where get_root_resource is not implemented.
C30_TreeOnlyForNamedSections ==
    Called =>
        /\ rootCalls > 0 => HasResources /\ Named # <<>>
        /\ policy.kind = "dict" /\ policy.items = <<>> =>
               Accepted /\ rootCalls = 0
        /\ (/\ HasResources
            /\ Keys(Resources) = {"*"}
            /\ WellFormedRules(At(Resources, "*"))) =>
               Accepted /\ rootCalls = 0

\* The base class accepted a policy with only a wildcard section.
C30_Witness ==
    /\ Called
    /\ ~root.implemented
    /\ policy = WildcardPolicy
    /\ Accepted
    /\ rootCalls = 0

RedisplayOf(k, g) ==
    /\ k \in ToPythonCalls
    /\ g \in GetContextCalls
    /\ k < g
    /\ \A m \in ToPythonCalls : m < g => m <= k
    /\ calls[g].arg = calls[k].arg
    /\ RecognizedMode(calls[k].arg)
    /\ BadRows(calls[k].arg) # {}
    /\ Resolves(calls[k].arg.conditions[FirstBadRow(calls[k].arg) + 1])

\* C25 as stated: after to_python fails on row i of a document with an
\* invalid value, get_context on the same document attaches the recorded
\* message to row i and to no other row that resolves; a row whose choice or
\* operator does not resolve shows the 'no longer exists' message instead.
C25_ErrorOnItsRow ==
    \A k, g \in DOMAIN calls :
        RedisplayOf(k, g) =>
            LET doc == calls[k].arg
                i == FirstBadRow(doc)
                rows == calls[g].ret.conditions
            IN  /\ rows[i + 1].error = calls[k].errors[i]
                /\ rows[i + 1].error # ""
                /\ \A j \in DOMAIN rows :
                       /\ j # i + 1 /\ Resolves(doc.conditions[j]) =>
                              rows[j].error = ""
                       /\ ~Resolves(doc.conditions[j]) =>
                              rows[j].error \in {MsgChoiceGone,
                                                 MsgOperatorGone}

\* C26: after get_context returns, the choices of the shared choice widget
\* and operator widget are what they were before the call; the options of a
\* row are the widget's own choices followed by that row's items alone, so
\* no option added for one row shows in a later row or a later call.
C26_WidgetChoicesRestored ==
    /\ GetContextCalls # {} =>
           widget_choices = [choice |-> <<"status">>, operator |-> <<>>]
    /\ \A k \in GetContextCalls :
           \A i \in DOMAIN calls[k].arg.conditions :
               LET condition == calls[k].arg.conditions[i]
                   row == calls[k].ret.conditions[i]
               IN  /\ row.choice_options =
                          IF condition.choice = "status"
                          THEN <<"status">>
                          ELSE <<"status", condition.choice>>
                   /\ row.operator_options =
                          IF Resolves(condition)
                          THEN <<"is", "any">>
                          ELSE <<condition.op>>

\* Two calls on a document whose first row has an unknown choice and whose
\* second row an unknown operator: the second row, and the second call, show
\* nothing of the options added before.
C26_Witness ==
    /\ Len(calls) = 2
    /\ calls[1].op = "get_context"
    /\ calls[2].op = "get_context"
    /\ calls[2].arg = Doc("all", <<Row("ghost", "is", "str:7"),
                                   Row("status", "gone", "str:7")>>)
    /\ calls[2].ret.conditions[1].choice_options = <<"status", "ghost">>
    /\ calls[2].ret.conditions[2].choice_options = <<"status">>
    /\ calls[2].ret.conditions[2].operator_options = <<"gone">>
    /\ widget_choices.choice = <<"status">>

\* C28 as stated: a row is rendered with disabled choice and operator
\* controls if and only if its own choice or operator does not resolve; a
\* row that resolves is editable, also after an invalid row.
C28_DisabledIffInvalid ==
    \A k \in GetContextCalls :
        \A i \in DOMAIN calls[k].arg.conditions :
            LET condition == calls[k].arg.conditions[i]
                row == calls[k].ret.conditions[i]
            IN  /\ row.choice_attrs.disabled = ~Resolves(condition)
                /\ row.operator_attrs.disabled = ~Resolves(condition)

ListEditCalled == calls # <<>> /\ calls[1].op = "list_edit_to_python"

\* The positions of a list of pairs at which the key k stands
PositionsOf(items, k) == {i \in DOMAIN items : items[i][1] = k}

\* C24: ListEditDictionaryField.to_python returns {} for an empty or missing
\* list; for pairs with pairwise distinct keys it returns the dictionary
\* that maps each key to its value; for a list in which a key occurs more
\* than once it raises a ValidationError with the code
\* 'duplicate_key_errors' and returns no dictionary.
C24_DuplicateKeysRejected ==
    ListEditCalled =>
        LET call == calls[1]
            items == IF value.kind = "list" THEN value.items ELSE <<>>
            keys == {items[i][1] : i \in DOMAIN items}
            distinct == \A k \in keys : Cardinality(PositionsOf(items, k)) = 1
        IN  /\ items = <<>> =>
                /\ call.exc.type = ""
                /\ call.ret.kind = "pydict"
                /\ DOMAIN call.ret.map = {}
            /\ items # <<>> /\ distinct =>
                /\ call.exc.type = ""
                /\ call.ret.kind = "pydict"
                /\ DOMAIN call.ret.map = keys
                /\ \A i \in DOMAIN items :
                       call.ret.map[items[i][1]] = items[i][2]
            /\ ~distinct =>
                /\ call.exc.type = "ValidationError"
                /\ call.exc.code = "duplicate_key_errors"
                /\ call.ret.kind # "pydict"

\* The key "a" comes back in the third pair, with another value
C24_Witness ==
    /\ ListEditCalled
    /\ value = PairList(<<<<"a", "x">>, <<"b", "y">>, <<"a", "y">>>>)
    /\ calls[1].exc.code = "duplicate_key_errors"

DecompressCalled == calls # <<>> /\ calls[1].op = "decompress"

\* The non-None multipliers of the unit choices
IntUnits == {unit_choices[i].n : i \in {j \in DOMAIN unit_choices :
                                           unit_choices[j].kind = "int"}}

\* The unit choices start with the base unit 1 and continue in increasing
\* order, with an optional None unit last
BaseUnitFirst ==
    /\ unit_choices # <<>>
    /\ unit_choices[1] = [kind |-> "int", n |-> 1]
    /\ \A i \in DOMAIN unit_choices :
           unit_choices[i].kind = "None" => i = Len(unit_choices)
    /\ \A i, j \in DOMAIN unit_choices :
           /\ i < j
           /\ unit_choices[i].kind = "int"
           /\ unit_choices[j].kind = "int"
           => unit_choices[i].n < unit_choices[j].n

\* C23: decompress returns (None, None) for None; for an integer value and
\* unit choices that start with the base unit 1 and continue in increasing
\* order (an optional None unit last), it returns (value // u, u) where u is
\* the largest non-None unit multiplier that divides the value exactly.
C23_LargestDividingUnit ==
    DecompressCalled =>
        LET ret == calls[1].ret
        IN  /\ value.kind = "None" =>
                /\ calls[1].exc.type = ""
                /\ ret.amount.kind = "None"
                /\ ret.unit.kind = "None"
            /\ value.kind = "int" /\ BaseUnitFirst =>
                /\ calls[1].exc.type = ""
                /\ ret.unit.kind = "int"
                /\ ret.unit.n \in IntUnits
                /\ value.n % ret.unit.n = 0
                /\ \A u \in IntUnits : value.n % u = 0 => u <= ret.unit.n
                /\ ret.amount.kind = "int"
                /\ ret.amount.n = value.n \div ret.unit.n

\* -6 with the units 1, 2, 3 and None: -2 of the unit 3
C23_Witness ==
    /\ DecompressCalled
    /\ value = [kind |-> "int", n |-> -6]
    /\ Len(unit_choices) = 3
    /\ BaseUnitFirst
    /\ IntUnits = {1, 2}
    /\ calls[1].ret.amount.n = -3
    /\ calls[1].ret.unit.n = 2

\* C29: for every integer value and unit choices that contain the base unit
\* 1, the pair decompress returns satisfies amount * unit = value, and
\* value_from_datadict on the submitted pair returns the value;
\* value_from_datadict returns None exactly when the submitted unit is
\* empty or None.
C29_AmountRoundTrip ==
    /\ DecompressCalled /\ value.kind = "int" /\ 1 \in IntUnits =>
           /\ calls[1].exc.type = ""
           /\ calls[1].ret.amount.n * calls[1].ret.unit.n = value.n
           /\ /\ Len(calls) = 2
              /\ data.amount = ToString(calls[1].ret.amount.n)
              /\ data.unit = ToString(calls[1].ret.unit.n)
              => /\ calls[2].exc.type = ""
                 /\ calls[2].ret = value
    /\ Len(calls) = 2 /\ calls[2].op = "value_from_datadict" =>
           (calls[2].exc.type = "" /\ calls[2].ret.kind = "None")
               <=> data.unit \in {"", "None"}

\* 6 with the units 3, 1 and 2: decompress returns 3 of the unit 2, and the
\* texts "3" and "2" come back as 6
C29_Witness ==
    /\ Len(calls) = 2
    /\ calls[1].op = "decompress"
    /\ value = [kind |-> "int", n |-> 6]
    /\ IntUnits = {1, 2, 3}
    /\ calls[1].ret.unit.n = 2
    /\ data = [amount |-> "3", unit |-> "2"]
    /\ calls[2].ret = value

View(ws, h, w) ==
    [condition_errors |-> h[ws[w].condition_errors],
     choice_kwargs |-> h[ws[w].choice_kwargs]]

\* C22: a deep copy shares no mutable state with its original: no step
\* changes the entries of condition_errors or choice_kwargs that two widgets
\* show; the copy starts with the entries and the choices source of its
\* original and with no resolved choices, and leaves the original as it is;
\* its first read invokes the factory again for a registry no other widget
\* holds, or returns the instance given as the source.
C22_CopySharesNothing ==
    [][/\ \A w1, w2 \in DOMAIN widgets :
              w1 # w2 =>
                  ~(/\ View(widgets', heap', w1) # View(widgets, heap, w1)
                    /\ View(widgets', heap', w2) # View(widgets, heap, w2))
       /\ Len(widgets') > Len(widgets) =>
              LET copy == Len(widgets')
                  original == calls'[copy].copy_of
              IN  /\ widgets'[copy]._choices.kind = "None"
                  /\ widgets'[copy]._orig_choices =
                         widgets[original]._orig_choices
                  /\ View(widgets', heap', copy) =
                         View(widgets, heap, original)
                  /\ \A w \in DOMAIN widgets :
                         /\ widgets'[w] = widgets[w]
                         /\ View(widgets', heap', w) =
                                View(widgets, heap, w)
       /\ \A w \in DOMAIN widgets :
              calls[w].reads = <<>> /\ calls'[w].reads # <<>> =>
                  IF widgets[w]._orig_choices.kind = "factory"
                  THEN /\ made' = made + 1
                       /\ \A x \in DOMAIN widgets :
                              calls'[w].reads[1] # widgets[x]._choices
                  ELSE calls'[w].reads[1] = widgets[w]._orig_choices
      ]_vars

\* The original resolved its choices, was copied, and got an error and a
\* keyword argument set; the copy shows neither and resolved a registry of
\* its own.
C22_Witness ==
    /\ Len(widgets) = 2
    /\ calls[2].copy_of = 1
    /\ widgets[1]._choices = [kind |-> "instance", id |-> 1]
    /\ widgets[2]._choices = [kind |-> "instance", id |-> 2]
    /\ DOMAIN heap[widgets[1].condition_errors] = {0}
    /\ DOMAIN heap[widgets[2].condition_errors] = {}
    /\ DOMAIN heap[widgets[1].choice_kwargs] = {"request"}
    /\ DOMAIN heap[widgets[2].choice_kwargs] = {}
====
